---- MODULE Spec2Model ----
(***************************************************************************)
(* A model of the lucy_notes_manager daemon:                               *)
(*   - the File Event Handler (file_handler.py) with its ignore ledger     *)
(*     and open throttle, one instance per watched directory (main.py);    *)
(*   - the Module Manager pipeline (module_manager.py);                    *)
(*   - the Plasma/Markdown synchronizer (modules/plasma_sync.py);          *)
(*   - the Git committer's worker (modules/git.py).                        *)
(* Specification Spec covers the dispatch fabric and the pipeline.         *)
(***************************************************************************)
EXTENDS Integers, Sequences, FiniteSets, TLC

(***************************************************************************)
(* Generic helpers for Python dicts (functions with a finite domain).      *)
(***************************************************************************)
EmptyDict == [x \in {} |-> 0]

DictGet(d, k, default) == IF k \in DOMAIN d THEN d[k] ELSE default

DictPut(d, k, v) == [x \in (DOMAIN d) \cup {k} |-> IF x = k THEN v ELSE d[x]]

DictDel(d, k) == [x \in (DOMAIN d) \ {k} |-> d[x]]

Last(s) == s[Len(s)]

(***************************************************************************)
(* Bounds of the model.                                                    *)
(***************************************************************************)
\* largest value of the monotonic clock that the model explores
MaxTime == 2
\* largest counter a ledger entry may reach before modules stop writing
MaxLedger == 4
\* scaled stand-ins for FileHandler's cleanup period and removal count
CleanupEvery == 2
CleanupRemove == 1
\* the positive value of --sys-on-open-cooldown explored, in clock ticks
OpenCooldown == 1
\* number of events not caused by the daemon itself
MaxUserEvents == 2
\* number of handler calls that find something to write
MaxWrites == 1

(***************************************************************************)
(* Paths.  A path is the tuple of its components below the root; all paths *)
(* of the model are absolute and normalised, so os.path.abspath leaves     *)
(* them unchanged.                                                         *)
(***************************************************************************)
PA == <<"n1", "a.md">>
PB == <<"n1", "b.md">>
PW == <<"n2", "w.html">>
PH == <<"n1", ".w.html">>
PG == <<"n1", ".git", "x">>
PD == <<"n1", "sub">>
NoPath == <<>>

FilePaths == {PA, PB, PW, PH, PG}
DirPaths == {PD}
Paths == FilePaths \cup DirPaths

\* the component names of the model that begin with a dot
DotNames == {".w.html", ".git"}

basename(p) == p[Len(p)]

startswith_dot(name) == name \in DotNames

has_git_component(p) == \E i \in 1..Len(p) : p[i] = ".git"

_abs(p) == p

\* the directories handed to observer.schedule, one FileHandler each
Dirs == {"n1", "n2"}

\* the FileHandler whose watch delivers an event on path p
HandlerOf(p) == p[1]

\* the files of the synchronizer: markdown note, main widget, bold mirror
markdown_path == PA
widget_path == PW
bold_widget_path == PH

(***************************************************************************)
(* Watch events (watchdog FileSystemEvent).                                *)
(***************************************************************************)
EventTypes == {"created", "modified", "moved", "deleted", "opened"}

Event(type, src, dest) ==
    [event_type |-> type, src_path |-> src, dest_path |-> dest,
     is_directory |-> src \in DirPaths]

\* the renames the environment may perform
MovedPairs == {<<PA, PB>>, <<PB, PA>>, <<PA, PH>>, <<PH, PA>>}

\* the events the user or other programs cause
PlainEvents ==
    {Event("modified", p, NoPath) : p \in Paths}
      \cup {Event("created", p, NoPath) : p \in {PA, PW}}
      \cup {Event("deleted", p, NoPath) : p \in {PA, PW}}
      \cup {Event("opened", p, NoPath) : p \in {PA, PB, PH}}

MovedEvents == {Event("moved", m[1], m[2]) : m \in MovedPairs}

\* the paths an event is about
EventPaths(e) ==
    IF e.event_type = "moved" THEN {e.src_path, e.dest_path} ELSE {e.src_path}

(***************************************************************************)
(* The modules registered in main.py, in registration order, with the      *)
(* class attributes the Module Manager reads.                              *)
(***************************************************************************)
MODULES == <<"banner", "renamer", "todo", "sys", "plasma_sync", "cmd">>

ModuleNames == {MODULES[i] : i \in 1..Len(MODULES)}

priority(m) ==
    CASE m = "banner" -> 10
      [] m = "renamer" -> 20
      [] m = "todo" -> 10
      [] m = "sys" -> 0
      [] m = "plasma_sync" -> 30
      [] m = "cmd" -> 50
      [] m = "git" -> 50

\* the handler names found in module.__class__.__dict__
class_dict(m) ==
    CASE m = "banner" -> {"created", "modified", "moved"}
      [] m = "renamer" -> {"created", "modified", "moved"}
      [] m = "todo" -> {"created", "modified", "moved"}
      [] m = "sys" -> {"created", "modified", "moved", "deleted"}
      [] m = "plasma_sync" -> {"created", "modified", "moved", "deleted"}
      [] m = "cmd" -> {"created", "modified", "moved", "deleted"}
      [] m = "git" -> {"on_opened", "created", "modified", "deleted", "moved"}

(***************************************************************************)
(* ModuleManager.__init__: the priority overrides and the sort.            *)
(* A --sys-priority item "name=int" is modelled as the pair <<name, int>>. *)
(***************************************************************************)
RECURSIVE _parse_priority_list(_)
_parse_priority_list(values) ==
    IF values = <<>> THEN EmptyDict
    ELSE LET n == Len(values)
             rest == _parse_priority_list(SubSeq(values, 1, n - 1))
         IN DictPut(rest, values[n][1], values[n][2])

sort_key(priority_dict, m) == DictGet(priority_dict, m, priority(m))

\* insert m behind every element whose key is not larger (a stable sort)
RECURSIVE InsertSorted(_, _, _)
InsertSorted(sorted, m, pd) ==
    IF sorted = <<>> THEN <<m>>
    ELSE IF sort_key(pd, Last(sorted)) <= sort_key(pd, m)
         THEN Append(sorted, m)
         ELSE Append(InsertSorted(SubSeq(sorted, 1, Len(sorted) - 1), m, pd),
                     Last(sorted))

\* a variant that leaves the modules in registration order
SortModules_unsorted(ms, pd) == ms

RECURSIVE SortModules(_, _)
SortModules(ms, pd) ==
    IF ms = <<>> THEN <<>>
    ELSE InsertSorted(SortModules(SubSeq(ms, 1, Len(ms) - 1), pd), Last(ms), pd)

\* the startup configurations explored
StartupConfigs ==
    {[exclude |-> {}, force |-> {}, sys_priority |-> <<>>,
      sys_on_open_cooldown |-> 0],
     [exclude |-> {"todo", "cmd"}, force |-> {},
      sys_priority |-> <<<<"cmd", 5>>, <<"sys", 40>>, <<"cmd", 15>>>>,
      sys_on_open_cooldown |-> OpenCooldown],
     [exclude |-> {"todo", "cmd"}, force |-> {"todo", "banner"},
      sys_priority |-> <<>>, sys_on_open_cooldown |-> OpenCooldown],
     [exclude |-> {}, force |-> {"todo", "banner"},
      sys_priority |-> <<<<"cmd", 5>>, <<"sys", 40>>, <<"cmd", 15>>>>,
      sys_on_open_cooldown |-> 0]}

(***************************************************************************)
(* State.                                                                  *)
(***************************************************************************)
VARIABLES
    config,                  \* ModuleManager.config: the startup configuration
    modules,                 \* ModuleManager.modules after the sort
    _open_cooldown_seconds,  \* FileHandler._open_cooldown_seconds
    _ignore_paths,           \* FileHandler._ignore_paths, one ledger per handler
    _last_open_ts,           \* FileHandler._last_open_ts, per handler
    _opened_events_seen,     \* FileHandler._opened_events_seen modulo the period
    now,                     \* time.monotonic()
    echo,                    \* watch events owed by the OS for module writes
    echoMoved,               \* moved events owed by the OS for module renames
    predicted,               \* events still announced by returned change maps
    run,                     \* the frame of ModuleManager.run in flight
    hist,                    \* what became of the last event dispatched
    user_events,             \* number of events not caused by the daemon
    writes                   \* number of handler calls that wrote files

dispatch_vars ==
    <<config, modules, _open_cooldown_seconds, _ignore_paths, _last_open_ts,
      _opened_events_seen, now, echo, echoMoved, predicted, run, hist,
      user_events, writes>>

\* the Git committer (modules/git.py)
VARIABLES
    git_config,              \* the config snapshot the events carry
    _event_queue,            \* Git._event_queue
    _pending_batches,        \* Git._pending_batches, in insertion order
    _push_backoff_seconds,   \* Git._push_backoff_seconds
    _push_next_allowed_at,   \* Git._push_next_allowed_at
    worker,                  \* the worker thread: its position and locals
    time_time,               \* time.time()
    git_log                  \* what was enqueued and processed, per repository

git_vars ==
    <<git_config, _event_queue, _pending_batches, _push_backoff_seconds,
      _push_next_allowed_at, worker, time_time, git_log>>

\* the Plasma/Markdown synchronizer (modules/plasma_sync.py)
VARIABLES
    disk,                    \* content of the note, the widget and the mirror
    _CURRENT_MD_HASH,        \* plasma_sync._CURRENT_MD_HASH
    _MAIN_BOLD_HASH,         \* plasma_sync._MAIN_BOLD_HASH
    _BOLD_NOTE_ITEMS_HASH,   \* plasma_sync._BOLD_NOTE_ITEMS_HASH
    _INIT_DONE,              \* plasma_sync._INIT_DONE
    bold_configured,         \* whether --plasma-bold-widget-path is given
    readonly,                \* the files whose writes fail (PermissionError)
    edits,                   \* number of edits made by other programs
    unhandled,               \* per file, the watch events not yet handled
    wrote,                   \* the keys of the change map returned last
    calls,                   \* parity of the number of _handle calls
    last_path,               \* path handled last, no file changed since
    prev_path,               \* path handled before that, no file changed since
    prev_wrote,              \* the keys of the change map returned before
    failed                   \* the files whose write failed in the last call

sync_vars ==
    <<disk, _CURRENT_MD_HASH, _MAIN_BOLD_HASH, _BOLD_NOTE_ITEMS_HASH, _INIT_DONE,
      bold_configured, readonly, edits, unhandled, wrote, calls, last_path,
      prev_path, prev_wrote, failed>>

\* the flags: lib/args.py, the startup of main.py and ModuleManager's config
VARIABLES
    template,                \* ModuleManager.template (its default objects)
    self_config,             \* ModuleManager.config and what it shares
    boot,                    \* sys.argv, the config file and what main.py got
    ctx,                     \* the last _update_config(): its file and result
    parses                   \* number of _update_config() calls

args_vars == <<template, self_config, boot, ctx, parses>>

\* the text conversions of plasma_sync.py taken alone
VARIABLES
    conv                     \* the arguments and the results of the calls

text_vars == <<conv>>

\* the committer's worker thread call by call, next to the main thread
VARIABLES
    thread,                  \* the worker thread: its position and locals
    _pending_lock,           \* Git._pending_lock: who holds it
    main                     \* the main thread of main.py

thread_vars == <<thread, _pending_lock, main>>

vars == <<dispatch_vars, git_vars, sync_vars, args_vars, text_vars, thread_vars>>

\* the repository roots of the model
Repos == {"rA", "rB"}

\* the config snapshots explored: --git-push-backoff-start-sec,
\* --git-push-backoff-max-sec, --git-auto-merge-on-push
GitConfigs ==
    {[backoff_start_seconds |-> 1, backoff_max_seconds |-> 4,
      auto_merge_on_push |-> TRUE],
     [backoff_start_seconds |-> 3, backoff_max_seconds |-> 2,
      auto_merge_on_push |-> FALSE]}

\* --git-debounce-seconds, in clock ticks
debounce_seconds == 1

IdleWorker == [pc |-> "get", due |-> <<>>, push_result |-> "none"]

\* per repository: the time of its first enqueued event (-1: none yet),
\* whether all its events were enqueued within one debounce window of the
\* first, and the number of stage-and-commit attempts made for it
NoGitLog ==
    [enqueued |-> 0,
     repo |-> [r \in Repos |-> [first_at |-> -1, in_window |-> TRUE, staged |-> 0]]]

\* the committer as __init__ leaves it
GitStart ==
    /\ _event_queue = <<>>
    /\ _pending_batches = <<>>
    /\ _push_backoff_seconds = EmptyDict
    /\ _push_next_allowed_at = EmptyDict
    /\ worker = IdleWorker
    /\ time_time = 0
    /\ git_log = NoGitLog

\* main.py does not register the committer: under Spec it stays as built
GitIdle ==
    /\ git_config = CHOOSE c \in GitConfigs : c.backoff_start_seconds = 1
    /\ GitStart

(***************************************************************************)
(* The files of the synchronizer.  A string is the tuple of its            *)
(* characters; a text is the non-empty sequence of the strings between     *)
(* its newlines (the empty text is one empty string).  An HTML file is     *)
(* kept as the sequence of its <p> blocks; a block is either the empty     *)
(* paragraph "<p ...><br /></p>" or a sequence of text segments, each bold *)
(* or not.  style tells the serialisation of the daemon from the one of    *)
(* Plasma (Qt), which differ byte for byte; complete tells whether the     *)
(* <html>, <body>, </body> and </html> tags are all there.                 *)
(***************************************************************************)
\* Python's None where a string is expected
NoValue == <<"None">>

\* Python's None where a digest is expected
NoDigest == <<<<"None">>>>

\* a file that does not exist
Missing == <<<<"Missing">>>>

EmptyText == <<<<>>>>

\* an HTML file that is missing or empty: _read_file returns ""
EmptyFile == [kind |-> "empty", complete |-> FALSE, style |-> "none", blocks |-> <<>>]

Seg(t, b) == [t |-> t, b |-> b]

P(segs) == [br |-> FALSE, segs |-> segs]

EmptyParagraph == [br |-> TRUE, segs |-> <<>>]

Html(style, complete, blocks) ==
    [kind |-> "html", complete |-> complete, style |-> style, blocks |-> blocks]

\* the module as its import leaves it, next to files that do not exist
SyncStart ==
    /\ _CURRENT_MD_HASH = NoDigest
    /\ _MAIN_BOLD_HASH = NoDigest
    /\ _BOLD_NOTE_ITEMS_HASH = NoDigest
    /\ _INIT_DONE = FALSE
    /\ edits = 0
    /\ unhandled = [p \in {markdown_path, widget_path, bold_widget_path} |-> 0]
    /\ wrote = {}
    /\ calls = 0
    /\ last_path = NoPath
    /\ prev_path = NoPath
    /\ prev_wrote = {}
    /\ failed = {}

\* the flags at rest, for the specifications of the other parts: nothing
\* parsed yet
ArgsIdle ==
    /\ template = <<>>
    /\ self_config = [values |-> EmptyDict, shared |-> {}]
    /\ boot = [phase |-> "off"]
    /\ ctx = [done |-> FALSE]
    /\ parses = 0

\* no conversion called
TextIdle == conv = [phase |-> "off"]

\* the worker thread seen call by call is left out
ThreadIdle ==
    /\ thread = [pc |-> "off"]
    /\ _pending_lock = "free"
    /\ main = "watching"

\* the synchronizer at rest, for the specifications of the other parts
SyncIdle ==
    /\ SyncStart
    /\ disk = [p \in {markdown_path, widget_path, bold_widget_path} |->
                 IF p = markdown_path THEN Missing ELSE EmptyFile]
    /\ bold_configured = TRUE
    /\ readonly = {}

(***************************************************************************)
(* FileHandler: the ignore ledger.                                         *)
(***************************************************************************)
\* a variant that keeps an entry whose counter reached zero
_bump_ignore_keeps_zero(ledger, path, delta) ==
    LET abs_path == _abs(path)
        cur == DictGet(ledger, abs_path, 0)
        new == cur + delta
    IN IF new < 0
       THEN IF abs_path \in DOMAIN ledger THEN DictDel(ledger, abs_path) ELSE ledger
       ELSE DictPut(ledger, abs_path, new)

\* returns the ledger after the bump
_bump_ignore(ledger, path, delta) ==
    LET abs_path == _abs(path)
        cur == DictGet(ledger, abs_path, 0)
        new == cur + delta
    IN IF new <= 0
       THEN IF abs_path \in DOMAIN ledger THEN DictDel(ledger, abs_path) ELSE ledger
       ELSE DictPut(ledger, abs_path, new)

\* returns <<dropped, ledger after>>
_check_and_delete_ignore(ledger, input_path) ==
    LET cur == DictGet(ledger, _abs(input_path), 0)
    IN IF cur <= 0 THEN <<FALSE, ledger>>
       ELSE <<TRUE, _bump_ignore(ledger, input_path, -1)>>

RECURSIVE _mark_to_ignore(_, _)
_mark_to_ignore(ledger, ignore_paths) ==
    IF DOMAIN ignore_paths = {} THEN ledger
    ELSE LET path == CHOOSE k \in DOMAIN ignore_paths : TRUE
         IN _mark_to_ignore(_bump_ignore(ledger, path, ignore_paths[path]),
                            DictDel(ignore_paths, path))

(***************************************************************************)
(* FileHandler._process_file up to the call of modules.run.                *)
(* verdict: "filtered" (directory, dot file, .git), "ignored" (dropped by  *)
(* the ledger) or "run" (forwarded to the Module Manager).                 *)
(***************************************************************************)
_process_file(ledger, event) ==
    IF event.is_directory \/ startswith_dot(basename(event.src_path))
    THEN [verdict |-> "filtered", ledger |-> ledger, file_path |-> NoPath]
    ELSE
    LET file_path == _abs(IF event.event_type = "moved"
                          THEN event.dest_path ELSE event.src_path)
    IN IF has_git_component(file_path)
       THEN [verdict |-> "filtered", ledger |-> ledger, file_path |-> NoPath]
       ELSE IF event.event_type = "moved"
       THEN LET c1 == _check_and_delete_ignore(ledger, event.src_path)
                c2 == _check_and_delete_ignore(c1[2], event.dest_path)
            IN IF c1[1]
               THEN [verdict |-> "ignored", ledger |-> c1[2], file_path |-> file_path]
               ELSE IF c2[1]
               THEN [verdict |-> "ignored", ledger |-> c2[2], file_path |-> file_path]
               ELSE [verdict |-> "run", ledger |-> c2[2], file_path |-> file_path]
       ELSE LET c == _check_and_delete_ignore(ledger, file_path)
            IN IF c[1]
               THEN [verdict |-> "ignored", ledger |-> c[2], file_path |-> file_path]
               ELSE [verdict |-> "run", ledger |-> c[2], file_path |-> file_path]

(***************************************************************************)
(* FileHandler: the open throttle.                                         *)
(***************************************************************************)
\* the sets of entries _cleanup_open_cache_oldest_n may remove: n entries
\* with the smallest timestamps (ties fall by insertion order, left open)
OldestSets(cache) ==
    LET n == IF CleanupRemove < Cardinality(DOMAIN cache)
             THEN CleanupRemove ELSE Cardinality(DOMAIN cache)
    IN {S \in SUBSET (DOMAIN cache) :
          /\ Cardinality(S) = n
          /\ \A x \in S : \A y \in (DOMAIN cache) \ S : cache[x] <= cache[y]}

_cleanup_open_cache_oldest_n(cache, victims) ==
    [x \in (DOMAIN cache) \ victims |-> cache[x]]

\* returns [ok, cache, seen]
_should_process_open(cooldown, cache, seen, file_path, clock, victims) ==
    IF cooldown <= 0 THEN [ok |-> TRUE, cache |-> cache, seen |-> seen]
    ELSE
    LET abs_path == _abs(file_path)
        seen1 == (seen + 1) % CleanupEvery
        cache1 == IF seen1 = 0
                  THEN _cleanup_open_cache_oldest_n(cache, victims) ELSE cache
        last == DictGet(cache1, abs_path, 0)
    IN IF clock - last < cooldown
       THEN [ok |-> FALSE, cache |-> cache1, seen |-> seen1]
       ELSE [ok |-> TRUE, cache |-> DictPut(cache1, abs_path, clock), seen |-> seen1]

(***************************************************************************)
(* What a module handler may do when invoked with Context.path = path.     *)
(* An outcome is "none" (returns None), "raise" (an exception leaves the   *)
(* handler) or "map": the handler wrote files and returns a change map,    *)
(* kept as the sequence of its items in insertion order.                   *)
(***************************************************************************)
None == [kind |-> "none", map |-> <<>>, moved |-> NoPath]
Raise == [kind |-> "raise", map |-> <<>>, moved |-> NoPath]
Map(items) == [kind |-> "map", map |-> items, moved |-> NoPath]

\* the event counts the modules announce per written file
SelfTimes == 1
PlasmaTimes == 4

\* the names --r may ask for: another file of the same directory
RenameTargets(path) ==
    IF path = PA THEN {PB} ELSE IF path = PB THEN {PA} ELSE {}

banner_outcomes(path) == {None, Raise, Map(<<<<path, SelfTimes>>>>)}

renamer_outcomes(path) ==
    {None} \cup {[kind |-> "map",
                  map |-> <<<<path, SelfTimes>>, <<new_path, SelfTimes>>>>,
                  moved |-> <<path, new_path>>] : new_path \in RenameTargets(path)}

todo_outcomes(path) == {None, Map(<<<<path, SelfTimes>>>>)}

sys_outcomes(path, event_type) ==
    {None} \cup (IF event_type = "deleted" THEN {}
                 ELSE {Map(<<<<path, SelfTimes>>>>)})

plasma_sync_outcomes(path, event_type) ==
    IF event_type = "deleted" THEN {None}
    ELSE {None, Raise} \cup
         (IF path = markdown_path
          THEN {Map(<<<<widget_path, PlasmaTimes>>>>),
                Map(<<<<markdown_path, PlasmaTimes>>,
                      <<bold_widget_path, PlasmaTimes>>>>)}
          ELSE IF path = widget_path
          THEN {Map(<<<<markdown_path, PlasmaTimes>>>>),
                Map(<<<<markdown_path, PlasmaTimes>>,
                      <<bold_widget_path, PlasmaTimes>>>>)}
          ELSE {})

cmd_outcomes(path, event_type) ==
    {None} \cup (IF event_type = "deleted" THEN {}
                 ELSE {Map(<<<<path, SelfTimes>>>>)})

\* the handlers of the committer return None after they enqueued an event:
\* their call is the step CallGit
Outcomes(m, path, event_type) ==
    CASE m = "banner" -> banner_outcomes(path)
      [] m = "renamer" -> renamer_outcomes(path)
      [] m = "todo" -> todo_outcomes(path)
      [] m = "sys" -> sys_outcomes(path, event_type)
      [] m = "plasma_sync" -> plasma_sync_outcomes(path, event_type)
      [] m = "cmd" -> cmd_outcomes(path, event_type)
      [] m = "git" -> {}

(***************************************************************************)
(* ModuleManager.run: the aggregation of one module's change map.          *)
(***************************************************************************)
RECURSIVE Aggregate(_, _)
Aggregate(ignore_paths, items) ==
    IF items = <<>> THEN ignore_paths
    ELSE LET path == items[1][1]
             times == items[1][2]
             rest == SubSeq(items, 2, Len(items))
         IN IF times = 0 THEN Aggregate(ignore_paths, rest)
            ELSE Aggregate(DictPut(ignore_paths, path,
                                   DictGet(ignore_paths, path, 0) + times), rest)

\* the files a change map names, each with the events its write causes
RECURSIVE AddEchoes(_, _)
AddEchoes(owed, items) ==
    IF items = <<>> THEN owed
    ELSE AddEchoes([owed EXCEPT ![items[1][1]] = @ + items[1][2]],
                   SubSeq(items, 2, Len(items)))

IdleRun ==
    [status |-> "idle", handler |-> "n1", event |-> Event("modified", PA, NoPath),
     trigger |-> NoPath, path |-> NoPath, parsed |-> NoPath, idx |-> 1,
     ignore_paths |-> EmptyDict, calls |-> <<>>]

(***************************************************************************)
(* The initial state: main.py builds one ModuleManager and, for every      *)
(* watched directory, one FileHandler with an empty ledger and cache.      *)
(***************************************************************************)
InitDispatch ==
    /\ config \in StartupConfigs
    /\ modules = SortModules(MODULES, _parse_priority_list(config.sys_priority))
    /\ _open_cooldown_seconds = config.sys_on_open_cooldown
    /\ _ignore_paths = [h \in Dirs |-> EmptyDict]
    /\ _last_open_ts = [h \in Dirs |-> EmptyDict]
    /\ _opened_events_seen = [h \in Dirs |-> 0]
    /\ now = 0
    /\ echo = [p \in FilePaths |-> 0]
    /\ echoMoved = {}
    /\ predicted = [p \in FilePaths |-> 0]
    /\ run = IdleRun
    /\ hist = "none"
    /\ user_events = 0
    /\ writes = 0

(***************************************************************************)
(* FileHandler.on_created / on_modified / on_moved / on_deleted /          *)
(* on_opened: the watch delivers event e to the handler of its directory.  *)
(* The observer thread delivers one event at a time; an exception that     *)
(* leaves run() ends that thread, and no further event is delivered.       *)
(***************************************************************************)
Deliver(e, clock) ==
    LET h == HandlerOf(e.src_path) IN
    /\ run.status \in {"idle", "returned"}
    /\ \E victims \in (IF e.event_type = "opened"
                       THEN OldestSets(_last_open_ts[h]) ELSE {{}}) :
         LET thr == IF e.event_type = "opened"
                    THEN _should_process_open(_open_cooldown_seconds,
                             _last_open_ts[h], _opened_events_seen[h],
                             e.src_path, clock, victims)
                    ELSE [ok |-> TRUE, cache |-> _last_open_ts[h],
                          seen |-> _opened_events_seen[h]]
             r == IF thr.ok THEN _process_file(_ignore_paths[h], e)
                  ELSE [verdict |-> "throttled", ledger |-> _ignore_paths[h],
                        file_path |-> NoPath]
         IN /\ _last_open_ts' = [_last_open_ts EXCEPT ![h] = thr.cache]
            /\ _opened_events_seen' = [_opened_events_seen EXCEPT ![h] = thr.seen]
            /\ _ignore_paths' = [_ignore_paths EXCEPT ![h] = r.ledger]
            /\ run' = IF r.verdict = "run"
                      THEN [status |-> "running", handler |-> h, event |-> e,
                            trigger |-> r.file_path, path |-> r.file_path,
                            parsed |-> r.file_path, idx |-> 1,
                            ignore_paths |-> EmptyDict, calls |-> <<>>]
                      ELSE IdleRun
            /\ hist' = r.verdict
    /\ predicted' = [p \in FilePaths |->
                       IF p \in EventPaths(e) /\ predicted[p] > 0
                       THEN predicted[p] - 1 ELSE predicted[p]]
    /\ now' = clock
    /\ UNCHANGED <<config, modules, _open_cooldown_seconds, writes>>
    /\ UNCHANGED <<git_vars, sync_vars, args_vars, text_vars, thread_vars>>

\* an event caused by the user or another program, once the events of the
\* modules' own writes have all been reported; the clock is read by the
\* open throttle only, so time passes in front of an opened event
UserEvent(e) ==
    /\ \A p \in FilePaths : echo[p] = 0
    /\ echoMoved = {}
    /\ user_events < MaxUserEvents
    /\ user_events' = user_events + 1
    /\ \E clock \in now..MaxTime :
         /\ (e.event_type # "opened" \/ _open_cooldown_seconds <= 0) => clock = now
         /\ Deliver(e, clock)
    /\ UNCHANGED <<echo, echoMoved>>

\* the OS reports one of the events of a module's write to p
EchoEvent(p) ==
    /\ echo[p] > 0
    /\ Deliver(Event("modified", p, NoPath), now)
    /\ echo' = [echo EXCEPT ![p] = @ - 1]
    /\ UNCHANGED <<echoMoved, user_events>>

\* the OS reports a rename performed by a module
EchoMoved(m) ==
    /\ m \in echoMoved
    /\ Deliver(Event("moved", m[1], m[2]), now)
    /\ echoMoved' = echoMoved \ {m}
    /\ UNCHANGED <<echo, user_events>>

(***************************************************************************)
(* ModuleManager.run, one loop iteration per step.                         *)
(***************************************************************************)
excluded(m) == m \in config.exclude /\ m \notin config.force

\* the iteration ends at one of the two "continue" statements
SkipModule ==
    /\ run.status = "running"
    /\ run.idx <= Len(modules)
    /\ \/ excluded(modules[run.idx])
       \/ run.event.event_type \notin class_dict(modules[run.idx])
    /\ run' = [run EXCEPT !.idx = @ + 1]
    /\ UNCHANGED <<config, modules, _open_cooldown_seconds, _ignore_paths,
                   _last_open_ts, _opened_events_seen, now, echo, echoMoved,
                   predicted, hist, user_events, writes>>
    /\ UNCHANGED <<git_vars, sync_vars, args_vars, text_vars, thread_vars>>

\* counters of the model stay within MaxLedger
WithinBounds(out) ==
    /\ \A i \in 1..Len(out.map) :
         LET p == out.map[i][1]
             t == out.map[i][2]
         IN /\ echo[p] + t <= MaxLedger
            /\ DictGet(_ignore_paths[run.handler], p, 0)
                 + DictGet(run.ignore_paths, p, 0) + t <= MaxLedger
    /\ out.moved # NoPath => echoMoved = {}
    /\ out.kind = "map" => writes < MaxWrites

\* the handler of the module is called with Context(path=path, config=config,
\* arg_lines=arg_lines); run.parsed is the file whose directives config and
\* arg_lines were read from: "path" at the first _update_config(), and
\* "path" as the loop over the change map left it at every later one
CallModule(out) ==
    /\ run.status = "running"
    /\ run.idx <= Len(modules)
    /\ ~excluded(modules[run.idx])
    /\ run.event.event_type \in class_dict(modules[run.idx])
    /\ out \in Outcomes(modules[run.idx], run.path, run.event.event_type)
    /\ WithinBounds(out)
    /\ LET call == [name |-> modules[run.idx], path |-> run.path,
                    parsed |-> run.parsed]
       IN run' = CASE out.kind = "raise" ->
                        [run EXCEPT !.status = "raised",
                                    !.calls = Append(@, call)]
                   [] out.kind = "none" ->
                        [run EXCEPT !.idx = @ + 1, !.calls = Append(@, call)]
                   [] out.kind = "map" ->
                        [run EXCEPT !.idx = @ + 1, !.calls = Append(@, call),
                                    !.ignore_paths = Aggregate(@, out.map),
                                    !.path = Last(out.map)[1],
                                    !.parsed = Last(out.map)[1]]
    /\ writes' = IF out.kind = "map" THEN writes + 1 ELSE writes
    /\ echo' = IF out.moved = NoPath THEN AddEchoes(echo, out.map) ELSE echo
    /\ echoMoved' = IF out.moved = NoPath THEN echoMoved
                    ELSE echoMoved \cup {out.moved}
    /\ UNCHANGED <<config, modules, _open_cooldown_seconds, _ignore_paths,
                   _last_open_ts, _opened_events_seen, now, predicted, hist,
                   user_events>>
    /\ UNCHANGED <<git_vars, sync_vars, args_vars, text_vars, thread_vars>>

\* "return ignore_paths or None", then FileHandler._mark_to_ignore
ReturnRun ==
    /\ run.status = "running"
    /\ run.idx > Len(modules)
    /\ run' = [run EXCEPT !.status = "returned"]
    /\ _ignore_paths' =
         IF run.ignore_paths = EmptyDict THEN _ignore_paths
         ELSE [_ignore_paths EXCEPT
                 ![run.handler] = _mark_to_ignore(@, run.ignore_paths)]
    /\ predicted' = [p \in FilePaths |->
                       predicted[p] + DictGet(run.ignore_paths, p, 0)]
    /\ UNCHANGED <<config, modules, _open_cooldown_seconds, _last_open_ts,
                   _opened_events_seen, now, echo, echoMoved, hist,
                   user_events, writes>>
    /\ UNCHANGED <<git_vars, sync_vars, args_vars, text_vars, thread_vars>>

Next ==
    \/ \E e \in PlainEvents \cup MovedEvents : UserEvent(e)
    \/ \E p \in FilePaths : EchoEvent(p)
    \/ \E m \in MovedPairs : EchoMoved(m)
    \/ SkipModule
    \/ \E out \in UNION {Outcomes(m, p, t) : m \in ModuleNames, p \in FilePaths,
                                             t \in EventTypes} : CallModule(out)
    \/ ReturnRun

\* the initial state of the daemon
Init == InitDispatch /\ GitIdle /\ SyncIdle /\ ArgsIdle /\ TextIdle /\ ThreadIdle

Spec == Init /\ [][Next]_vars

(***************************************************************************)
(* Properties of the dispatch fabric and the pipeline.                     *)
(***************************************************************************)

\* C1 (self-suppression): when a returned change map announces events for a
\* path and the OS reports one of that path's events, the event does not
\* reach the Module Manager, whichever FileHandler receives it.
C1_SelfSuppression ==
    [][(\E p \in FilePaths : predicted[p] > 0 /\ echo'[p] = echo[p] - 1)
         => run'.status # "running"]_vars

\* C2: every key of every ignore ledger maps to a strictly positive
\* integer; a decrement reaching zero removes the key, and no operation
\* stores a zero or negative counter.
C2_LedgerPositive ==
    \A h \in Dirs : \A p \in DOMAIN _ignore_paths[h] :
        _ignore_paths[h][p] \in Nat /\ _ignore_paths[h][p] > 0

\* the last event was dropped by the ledger and the decrement removed the
\* last key
C2_Witness ==
    /\ hist = "ignored"
    /\ \A h \in Dirs : _ignore_paths[h] = EmptyDict
    /\ writes > 0

\* C3 (net-zero drain): while events announced by a returned change map
\* {p: n} are outstanding, each non-moved event delivered for p is dropped,
\* the drop lowers ledger[p] by exactly one and changes no other entry, and
\* after the n-th the ledger has no entry for p (so the next event for p is
\* forwarded).
C3_NetZeroDrain ==
    [][\A p \in FilePaths :
         (predicted[p] > 0 /\ echo'[p] = echo[p] - 1) =>
            LET h == HandlerOf(p) IN
            /\ hist' = "ignored"
            /\ DictGet(_ignore_paths'[h], p, 0) = DictGet(_ignore_paths[h], p, 0) - 1
            /\ \A q \in FilePaths \ {p} :
                 DictGet(_ignore_paths'[h], q, 0) = DictGet(_ignore_paths[h], q, 0)
            /\ predicted[p] = 1 => p \notin DOMAIN _ignore_paths'[h]]_vars

\* the priority the claim calls effective: the --sys-priority override for
\* the module (the last one given), else the declared priority
EffectivePriority(m) ==
    LET sp == config.sys_priority
        given == {i \in 1..Len(sp) : sp[i][1] = m}
    IN IF given = {} THEN priority(m)
       ELSE sp[CHOOSE i \in given : \A j \in given : j <= i][2]

\* C8: within one run the modules are invoked in ascending effective
\* priority.
C8_AscendingPriority ==
    \A i \in 1..Len(run.calls) : \A j \in i..Len(run.calls) :
        EffectivePriority(run.calls[i].name) <= EffectivePriority(run.calls[j].name)

\* a complete run under overrides that move cmd in front of renamer and sys
\* behind plasma_sync
C8_Witness ==
    /\ run.status = "returned"
    /\ config.sys_priority # <<>>
    /\ Len(run.calls) = 6
    /\ run.calls[3].name = "cmd"
    /\ run.calls[6].name = "sys"

\* C9: a module in --exclude and not in --force is never invoked; a module
\* listed in both, or in neither, is invoked for every event whose kind it
\* overrides.
C9_ExcludeForce ==
    /\ \A i \in 1..Len(run.calls) :
         ~(run.calls[i].name \in config.exclude
             /\ run.calls[i].name \notin config.force)
    /\ run.status \in {"returned", "raised"} =>
         \A m \in ModuleNames :
            (/\ (m \in config.force \/ m \notin config.exclude)
             /\ run.event.event_type \in class_dict(m))
            => \E i \in 1..Len(run.calls) : run.calls[i].name = m

\* C10: every module invocation of run(path, event) has Context.path equal
\* to the triggering path, whatever change maps earlier modules returned.
C10_ContextPath ==
    \A i \in 1..Len(run.calls) : run.calls[i].path = run.trigger

\* C11: the config and arg_lines a module receives are read from the
\* directives of the triggering file: at the start of the run, and again
\* after every module that returned a non-empty change map; a module that
\* follows one that returned nothing receives what that one received.
C11_ConfigOfTrigger ==
    /\ \A i \in 1..Len(run.calls) : run.calls[i].parsed = run.trigger
    /\ run.status = "running" => run.parsed = run.trigger

\* C12: an exception raised by a module handler does not end the run: the
\* modules that follow it in priority order are still invoked, and the
\* change maps returned before it reach the ledger of the File Event Handler.
C12_RaiseIsolated ==
    run.status = "raised" =>
        /\ \A j \in (run.idx + 1)..Len(modules) :
              (/\ ~excluded(modules[j])
               /\ run.event.event_type \in class_dict(modules[j]))
              => \E i \in 1..Len(run.calls) : run.calls[i].name = modules[j]
        /\ \A p \in DOMAIN run.ignore_paths :
              DictGet(_ignore_paths[run.handler], p, 0) >= run.ignore_paths[p]

\* C13: with a cooldown c > 0, an opened event for a path is forwarded to
\* the pipeline only when at least c seconds have passed since the last
\* opened event for that path that was forwarded (the cache holds the time
\* of that event), whatever opened events came in between.
C13_OpenSpacing ==
    [][(/\ _open_cooldown_seconds > 0
        /\ run.status # "running"
        /\ run'.status = "running"
        /\ run'.event.event_type = "opened"
        /\ run'.event.src_path \in DOMAIN _last_open_ts[run'.handler])
       => now' - _last_open_ts[run'.handler][run'.event.src_path]
            >= _open_cooldown_seconds]_vars

\* C15: the Module Manager is never run for a directory event, for an event
\* whose effective path has a .git component, or for a path whose basename
\* starts with a dot; for every kind of event, moved included, no module is
\* invoked with a Context.path whose basename starts with a dot.
C15_NoHiddenPath ==
    /\ run.status = "running" =>
          /\ ~run.event.is_directory
          /\ ~has_git_component(run.trigger)
          /\ ~startswith_dot(basename(run.trigger))
    /\ \A i \in 1..Len(run.calls) :
          ~startswith_dot(basename(run.calls[i].path))

\* C20: the change map of a synchronizer handler counts exactly 1 for every
\* file it wrote: after a run for the markdown note in which the
\* synchronizer wrote only the main widget, the aggregated change map and
\* the ledger of the File Event Handler hold 1 for the widget path.
C20_SyncCountsOne ==
    (/\ run.status = "returned"
     /\ run.trigger = markdown_path
     /\ \E i \in 1..Len(run.calls) : run.calls[i].name = "plasma_sync"
     /\ DOMAIN run.ignore_paths = {widget_path})
    => /\ run.ignore_paths[widget_path] = 1
       /\ DictGet(_ignore_paths[run.handler], widget_path, 0) = 1

(***************************************************************************)
(* The open throttle under a stream of opened events: FileHandler.on_opened *)
(* for any path of the watched directories, with a cooldown configured.    *)
(***************************************************************************)
MaxOpened == 7

OpenedEvents == {Event("opened", p, NoPath) : p \in Paths}

\* FileHandler.on_opened
on_opened(e) ==
    /\ user_events < MaxOpened
    /\ user_events' = user_events + 1
    /\ \E clock \in now..MaxTime : Deliver(e, clock)
    /\ UNCHANGED <<echo, echoMoved>>

InitOpen == Init /\ _open_cooldown_seconds > 0

NextOpen ==
    \/ \E e \in OpenedEvents : on_opened(e)
    \/ SkipModule
    \/ ReturnRun

SpecOpen == InitOpen /\ [][NextOpen]_vars

\* C14: the number of paths held by the open-throttle cache of a File Event
\* Handler never exceeds a bound that depends only on the cleanup period W
\* and the number N of entries a cleanup removes (here W + N).
C14_CacheBounded ==
    \A h \in Dirs :
       Cardinality(DOMAIN _last_open_ts[h]) <= CleanupEvery + CleanupRemove

(***************************************************************************)
(* The Git committer: producer side (Git._handle / on_opened / _enqueue)   *)
(* and the worker thread (Git._worker_loop, Git._process_batch).           *)
(***************************************************************************)
\* bounds of the committer's model
MaxEnqueued == 4
MaxGitTime == 3

Min2(a, b) == IF a <= b THEN a ELSE b
Max2(a, b) == IF a >= b THEN a ELSE b

\* the dispatch fabric at rest, for the specifications of single modules
DispatchIdle ==
    /\ config = CHOOSE c \in StartupConfigs : c.exclude = {} /\ c.force = {}
    /\ modules = SortModules(MODULES, _parse_priority_list(config.sys_priority))
    /\ _open_cooldown_seconds = config.sys_on_open_cooldown
    /\ _ignore_paths = [h \in Dirs |-> EmptyDict]
    /\ _last_open_ts = [h \in Dirs |-> EmptyDict]
    /\ _opened_events_seen = [h \in Dirs |-> 0]
    /\ now = 0
    /\ echo = [p \in FilePaths |-> 0]
    /\ echoMoved = {}
    /\ predicted = [p \in FilePaths |-> 0]
    /\ run = IdleRun
    /\ hist = "none"
    /\ user_events = 0
    /\ writes = 0

InitGit ==
    /\ DispatchIdle
    /\ git_config \in GitConfigs
    /\ GitStart
    /\ SyncIdle
    /\ ArgsIdle
    /\ TextIdle
    /\ ThreadIdle

\* Git._handle / Git.on_opened: a handler of the pipeline enqueues an event
\* for repository r (opened events ask for a pull)
_enqueue(r, event_type) ==
    /\ git_log.enqueued < MaxEnqueued
    /\ _event_queue' = Append(_event_queue,
                              [repo_root |-> r, event_type |-> event_type,
                               wants_pull |-> event_type = "opened"])
    /\ git_log' = [git_log EXCEPT
                     !.enqueued = @ + 1,
                     !.repo[r].first_at = IF @ = -1 THEN time_time ELSE @,
                     !.repo[r].in_window =
                         /\ @
                         /\ git_log.repo[r].first_at # -1 =>
                              time_time - git_log.repo[r].first_at < debounce_seconds]
    /\ UNCHANGED <<git_config, _pending_batches, _push_backoff_seconds,
                   _push_next_allowed_at, worker, time_time>>
    /\ UNCHANGED <<dispatch_vars, sync_vars, args_vars, text_vars, thread_vars>>

\* the index of repository r's pending batch, 0 when there is none
PendingIndex(r) ==
    IF \E i \in 1..Len(_pending_batches) : _pending_batches[i].repo_root = r
    THEN CHOOSE i \in 1..Len(_pending_batches) : _pending_batches[i].repo_root = r
    ELSE 0

\* _worker_loop: queue.get returned an item; it is merged into the batch of
\* its repository, stamped with the time of the dequeue
WorkerGet ==
    /\ worker.pc = "get"
    /\ _event_queue # <<>>
    /\ LET item == Head(_event_queue)
           i == PendingIndex(item.repo_root)
           now_timestamp == time_time
       IN _pending_batches' =
            IF i = 0
            THEN Append(_pending_batches,
                        [repo_root |-> item.repo_root,
                         wants_pull |-> item.wants_pull,
                         last_event_at |-> now_timestamp,
                         event_types |-> {item.event_type}])
            ELSE [_pending_batches EXCEPT
                    ![i].wants_pull = @ \/ item.wants_pull,
                    ![i].last_event_at = now_timestamp,
                    ![i].event_types = @ \cup {item.event_type}]
    /\ _event_queue' = Tail(_event_queue)
    /\ worker' = [worker EXCEPT !.pc = "flush"]
    /\ UNCHANGED <<git_config, _push_backoff_seconds, _push_next_allowed_at,
                   time_time, git_log>>
    /\ UNCHANGED <<dispatch_vars, sync_vars, args_vars, text_vars, thread_vars>>

\* _worker_loop: queue.get timed out (queue.Empty)
WorkerEmpty ==
    /\ worker.pc = "get"
    /\ _event_queue = <<>>
    /\ worker' = [worker EXCEPT !.pc = "flush"]
    /\ UNCHANGED <<git_config, _event_queue, _pending_batches,
                   _push_backoff_seconds, _push_next_allowed_at, time_time,
                   git_log>>
    /\ UNCHANGED <<dispatch_vars, sync_vars, args_vars, text_vars, thread_vars>>

IsDue(batch) == time_time - batch.last_event_at >= debounce_seconds
NotDue(batch) == ~IsDue(batch)

\* _worker_loop: the batches whose debounce elapsed leave the pending table
WorkerFlush ==
    /\ worker.pc = "flush"
    /\ LET due_batches == SelectSeq(_pending_batches, IsDue)
       IN /\ _pending_batches' = SelectSeq(_pending_batches, NotDue)
          /\ worker' = [worker EXCEPT
                          !.due = due_batches,
                          !.pc = IF due_batches = <<>> THEN "get" ELSE "batch"]
    /\ UNCHANGED <<git_config, _event_queue, _push_backoff_seconds,
                   _push_next_allowed_at, time_time, git_log>>
    /\ UNCHANGED <<dispatch_vars, sync_vars, args_vars, text_vars, thread_vars>>

(***************************************************************************)
(* Git._process_batch, for the first of the due batches.                   *)
(***************************************************************************)
Batch == Head(worker.due)

\* _process_batch returns: the loop goes on with the next due batch
Finished(w) ==
    [w EXCEPT !.due = Tail(@), !.pc = IF Len(w.due) = 1 THEN "get" ELSE "batch"]

\* a variant that doubles without the cap
_register_push_failure_uncapped(backoff, repo_root, start, max) ==
    Max2(DictGet(backoff, repo_root, start), start) * 2

\* the backoff _register_push_failure stores
_register_push_failure(backoff, repo_root, start, max) ==
    LET current_backoff == DictGet(backoff, repo_root, start)
    IN Min2(Max2(current_backoff, start) * 2, max)

\* _register_push_failure as a step: both tables are written
RegisterPushFailure(repo_root) ==
    LET new_backoff == _register_push_failure(_push_backoff_seconds, repo_root,
                           git_config.backoff_start_seconds,
                           git_config.backoff_max_seconds)
    IN /\ _push_backoff_seconds' =
            DictPut(_push_backoff_seconds, repo_root, new_backoff)
       /\ _push_next_allowed_at' =
            DictPut(_push_next_allowed_at, repo_root, time_time + new_backoff)

\* the two assignments after a push that succeeded
ResetBackoff(repo_root) ==
    /\ _push_backoff_seconds' =
         DictPut(_push_backoff_seconds, repo_root, git_config.backoff_start_seconds)
    /\ _push_next_allowed_at' = DictPut(_push_next_allowed_at, repo_root, 0)

\* the unfinished-merge check and the pull-only path of opened batches:
\* merge is "clean" (none in progress), "resolved" or "stuck" (aborted)
BeginBatch(merge) ==
    /\ worker.pc = "batch"
    /\ worker' = IF merge = "stuck"
                    \/ (Batch.event_types = {"opened"} /\ Batch.wants_pull)
                 THEN Finished([worker EXCEPT !.push_result = "none"])
                 ELSE [worker EXCEPT !.pc = "stage", !.push_result = "none"]
    /\ UNCHANGED <<git_config, _event_queue, _pending_batches,
                   _push_backoff_seconds, _push_next_allowed_at, time_time,
                   git_log>>
    /\ UNCHANGED <<dispatch_vars, sync_vars, args_vars, text_vars, thread_vars>>

\* git add -A, git status --porcelain, git commit: a failure or timeout of
\* any of them ends the batch
StageCommit(ok) ==
    /\ worker.pc = "stage"
    /\ git_log' = [git_log EXCEPT !.repo[Batch.repo_root].staged = @ + 1]
    /\ worker' = IF ok THEN [worker EXCEPT !.pc = "gate"] ELSE Finished(worker)
    /\ UNCHANGED <<git_config, _event_queue, _pending_batches,
                   _push_backoff_seconds, _push_next_allowed_at, time_time>>
    /\ UNCHANGED <<dispatch_vars, sync_vars, args_vars, text_vars, thread_vars>>

\* the pull a batch asked for, then the backoff window
PushGate ==
    /\ worker.pc = "gate"
    /\ LET now_timestamp == time_time
           next_allowed_timestamp ==
               DictGet(_push_next_allowed_at, Batch.repo_root, 0)
       IN worker' = IF now_timestamp < next_allowed_timestamp
                    THEN Finished(worker)
                    ELSE [worker EXCEPT !.pc = "push1"]
    /\ UNCHANGED <<git_config, _event_queue, _pending_batches,
                   _push_backoff_seconds, _push_next_allowed_at, time_time,
                   git_log>>
    /\ UNCHANGED <<dispatch_vars, sync_vars, args_vars, text_vars, thread_vars>>

PushResults == {"ok", "timeout", "rejected", "failed"}

\* run_push(), first call: "rejected" is a failure whose output asks for a
\* pull, "failed" any other non-zero return code
Push1(result) ==
    /\ worker.pc = "push1"
    /\ result \in PushResults
    /\ CASE result = "ok" ->
              /\ ResetBackoff(Batch.repo_root)
              /\ worker' = Finished([worker EXCEPT !.push_result = result])
         [] result = "timeout" ->
              /\ RegisterPushFailure(Batch.repo_root)
              /\ worker' = Finished([worker EXCEPT !.push_result = result])
         [] result = "rejected" ->
              /\ UNCHANGED <<_push_backoff_seconds, _push_next_allowed_at>>
              /\ worker' = [worker EXCEPT
                              !.push_result = result,
                              !.pc = IF git_config.auto_merge_on_push
                                     THEN "pull" ELSE "register"]
         [] result = "failed" ->
              /\ UNCHANGED <<_push_backoff_seconds, _push_next_allowed_at>>
              /\ worker' = [worker EXCEPT !.push_result = result,
                                          !.pc = "register"]
    /\ UNCHANGED <<git_config, _event_queue, _pending_batches, time_time, git_log>>
    /\ UNCHANGED <<dispatch_vars, sync_vars, args_vars, text_vars, thread_vars>>

\* _safe_pull_merge after a rejected push
PullMerge(pulled) ==
    /\ worker.pc = "pull"
    /\ worker' = [worker EXCEPT !.pc = IF pulled THEN "push2" ELSE "register"]
    /\ UNCHANGED <<git_config, _event_queue, _pending_batches,
                   _push_backoff_seconds, _push_next_allowed_at, time_time,
                   git_log>>
    /\ UNCHANGED <<dispatch_vars, sync_vars, args_vars, text_vars, thread_vars>>

\* run_push(), second call: a timeout registers the failure inside
\* run_push and control still reaches the registration below
Push2(result) ==
    /\ worker.pc = "push2"
    /\ result \in PushResults
    /\ CASE result = "ok" ->
              /\ ResetBackoff(Batch.repo_root)
              /\ worker' = Finished([worker EXCEPT !.push_result = result])
         [] result = "timeout" ->
              /\ RegisterPushFailure(Batch.repo_root)
              /\ worker' = [worker EXCEPT !.push_result = result,
                                          !.pc = "register"]
         [] OTHER ->
              /\ UNCHANGED <<_push_backoff_seconds, _push_next_allowed_at>>
              /\ worker' = [worker EXCEPT !.push_result = result,
                                          !.pc = "register"]
    /\ UNCHANGED <<git_config, _event_queue, _pending_batches, time_time, git_log>>
    /\ UNCHANGED <<dispatch_vars, sync_vars, args_vars, text_vars, thread_vars>>

\* the call of _register_push_failure that ends the failure branch
RegisterFailure ==
    /\ worker.pc = "register"
    /\ RegisterPushFailure(Batch.repo_root)
    /\ worker' = Finished(worker)
    /\ UNCHANGED <<git_config, _event_queue, _pending_batches, time_time, git_log>>
    /\ UNCHANGED <<dispatch_vars, sync_vars, args_vars, text_vars, thread_vars>>

\* time passes while the worker waits in queue.get or in a git subprocess
GitTick ==
    /\ time_time < MaxGitTime
    /\ \/ worker.pc = "get" /\ _event_queue = <<>>
       \/ worker.pc \in {"stage", "push1", "pull", "push2"}
    /\ time_time' = time_time + 1
    /\ UNCHANGED <<git_config, _event_queue, _pending_batches,
                   _push_backoff_seconds, _push_next_allowed_at, worker, git_log>>
    /\ UNCHANGED <<dispatch_vars, sync_vars, args_vars, text_vars, thread_vars>>

\* the event types enqueued for repository r
EnqueuedTypes(r) == IF r = "rA" THEN {"modified", "opened"} ELSE {"modified"}

NextGit ==
    \/ \E r \in Repos : \E t \in EnqueuedTypes(r) : _enqueue(r, t)
    \/ WorkerGet
    \/ WorkerEmpty
    \/ WorkerFlush
    \/ \E merge \in {"clean", "resolved", "stuck"} : BeginBatch(merge)
    \/ \E ok \in BOOLEAN : StageCommit(ok)
    \/ PushGate
    \/ \E result \in PushResults : Push1(result)
    \/ \E pulled \in BOOLEAN : PullMerge(pulled)
    \/ \E result \in PushResults : Push2(result)
    \/ RegisterFailure
    \/ GitTick

SpecGit == InitGit /\ [][NextGit]_vars

(***************************************************************************)
(* Properties of the Git committer.                                        *)
(***************************************************************************)

\* C6 (batch coalescing): when all the events of a repository root were
\* enqueued within one debounce window, the worker makes one
\* stage-and-commit attempt for them and never a second one, whatever is
\* queued for other repositories and however long their batches take.
C6_BatchCoalescing ==
    \A r \in Repos :
        (git_log.repo[r].first_at # -1 /\ git_log.repo[r].in_window)
            => git_log.repo[r].staged <= 1

\* C7: a push failure stores min(max(previous, s) * 2, m), which is never
\* above m and, within a run of consecutive failures, never below the value
\* stored before, and sets next-allowed to now + backoff; a successful push
\* stores s and clears next-allowed; nothing else writes the two tables.
C7_Backoff ==
    [][LET r == Batch.repo_root
           s == git_config.backoff_start_seconds
           m == git_config.backoff_max_seconds
           previous == DictGet(_push_backoff_seconds, r, s)
           failing == DictGet(_push_next_allowed_at, r, 0) > 0
       IN CASE \/ worker.pc = "register" /\ worker'.pc # "register"
               \/ (worker.pc \in {"push1", "push2"} /\ worker' # worker
                     /\ worker'.push_result = "timeout") ->
                  /\ _push_backoff_seconds'[r] = Min2(Max2(previous, s) * 2, m)
                  /\ _push_backoff_seconds'[r] <= m
                  /\ failing => _push_backoff_seconds'[r] >= _push_backoff_seconds[r]
                  /\ _push_next_allowed_at'[r] = time_time + _push_backoff_seconds'[r]
                  /\ \A o \in Repos \ {r} :
                       /\ DictGet(_push_backoff_seconds', o, 0)
                            = DictGet(_push_backoff_seconds, o, 0)
                       /\ DictGet(_push_next_allowed_at', o, 0)
                            = DictGet(_push_next_allowed_at, o, 0)
            [] (worker.pc \in {"push1", "push2"} /\ worker' # worker
                  /\ worker'.push_result = "ok") ->
                  /\ _push_backoff_seconds'[r] = s
                  /\ _push_next_allowed_at'[r] = 0
            [] OTHER ->
                  /\ _push_backoff_seconds' = _push_backoff_seconds
                  /\ _push_next_allowed_at' = _push_next_allowed_at]_vars

\* a run of failures has doubled the backoff up to the cap
C7_Witness ==
    \E r \in Repos :
        /\ r \in DOMAIN _push_backoff_seconds
        /\ git_config.backoff_start_seconds * 2 < git_config.backoff_max_seconds
        /\ _push_backoff_seconds[r] = git_config.backoff_max_seconds
        /\ _push_next_allowed_at[r] = time_time + git_config.backoff_max_seconds

(***************************************************************************)
(* The Plasma/Markdown synchronizer: string helpers.  The model's texts    *)
(* hold no "\r" and none of the characters html.escape rewrites, so the    *)
(* newline replacement and the escaping leave them as they are.            *)
(***************************************************************************)
\* F at the value of e: a local variable, assigned once and read often
Bind(e, F(_)) == CHOOSE r \in {F(v) : v \in {e}} : TRUE

isspace(c) == c = " "

RECURSIVE lstrip(_)
lstrip(s) == IF s # <<>> /\ isspace(Head(s)) THEN lstrip(Tail(s)) ELSE s

RECURSIVE rstrip(_)
rstrip(s) ==
    IF s # <<>> /\ isspace(Last(s)) THEN rstrip(SubSeq(s, 1, Len(s) - 1)) ELSE s

strip(s) == Bind(rstrip(s), LAMBDA r : lstrip(r))

startswith(s, prefix) ==
    Len(s) >= Len(prefix) /\ SubSeq(s, 1, Len(prefix)) = prefix

endswith(s, suffix) ==
    Len(s) >= Len(suffix) /\ SubSeq(s, Len(s) - Len(suffix) + 1, Len(s)) = suffix

\* str.splitlines: a final newline opens no further line
splitlines(text) ==
    IF Last(text) = <<>> THEN SubSeq(text, 1, Len(text) - 1) ELSE text

\* "\n".join(lines)
join(lines) == IF lines = <<>> THEN EmptyText ELSE lines

\* "".join(strings)
RECURSIVE concat(_)
concat(strings) ==
    IF strings = <<>> THEN <<>> ELSE Head(strings) \o concat(Tail(strings))

Stars == <<"*", "*">>

Dash == <<"-", " ">>

\* _LIST_PREFIX_RE.match(line): ^(\s*[-*+]\s+)(.*)$
_LIST_PREFIX_RE(line) ==
    Bind(Len(line) - Len(lstrip(line)), LAMBDA k :
    IF Len(line) >= k + 2 /\ line[k + 1] \in {"-", "*", "+"}
         /\ isspace(line[k + 2])
    THEN Bind(lstrip(SubSeq(line, k + 2, Len(line))), LAMBDA rest :
              [matched |-> TRUE,
               prefix |-> SubSeq(line, 1, Len(line) - Len(rest)),
               rest |-> rest])
    ELSE [matched |-> FALSE, prefix |-> <<>>, rest |-> <<>>])

\* the inner text of a string wrapped in ** as a whole, else None
_unwrap_md_bold(s) ==
    Bind(strip(s), LAMBDA s2 :
    IF Len(s2) >= 4 /\ startswith(s2, Stars) /\ endswith(s2, Stars)
    THEN strip(SubSeq(s2, 3, Len(s2) - 2))
    ELSE NoValue)

_wrap_md_bold_line(plain_line) ==
    Bind(_LIST_PREFIX_RE(plain_line), LAMBDA m :
    IF m.matched
    THEN Bind(strip(m.rest), LAMBDA rest2 :
              IF rest2 = <<>> THEN rstrip(m.prefix)
              ELSE m.prefix \o Stars \o rest2 \o Stars)
    ELSE Bind(strip(plain_line), LAMBDA inner :
              IF inner = <<>> THEN <<>> ELSE Stars \o inner \o Stars))

isblank(line) == strip(line) = <<>>

\* the loop "while i < n and lines[i].strip() == ''"
RECURSIVE SkipBlank(_)
SkipBlank(lines) ==
    IF lines # <<>> /\ isblank(Head(lines)) THEN SkipBlank(Tail(lines)) ELSE lines

\* the loop "while result and result[-1].strip() == ''"
RECURSIVE PopBlank(_)
PopBlank(result) ==
    IF result # <<>> /\ isblank(Last(result))
    THEN PopBlank(SubSeq(result, 1, Len(result) - 1)) ELSE result

\* the main loop of _normalize_text over the lines not yet consumed
RECURSIVE NormalizeLoop(_, _, _)
NormalizeLoop(lines, result, last_nonblank) ==
    IF lines = <<>> THEN result
    ELSE IF ~isblank(Head(lines))
    THEN Bind(Append(result, Head(lines)), LAMBDA r :
              NormalizeLoop(Tail(lines), r, Head(lines)))
    ELSE Bind(SkipBlank(lines), LAMBDA rest :
         IF rest = <<>> THEN result
         ELSE LET prev == rstrip(last_nonblank)
                  next_stripped == lstrip(Head(rest))
                  tight ==
                     \/ endswith(prev, <<":">>) /\ startswith(next_stripped, Dash)
                     \/ /\ startswith(lstrip(prev), Dash)
                        /\ startswith(next_stripped, Dash)
              IN Bind(IF tight THEN result ELSE Append(result, <<>>), LAMBDA r :
                      NormalizeLoop(rest, r, last_nonblank)))

\* a variant that drops one leading blank line only
_normalize_text_one_leading(text) ==
    Bind(splitlines(text), LAMBDA lines :
    Bind(IF lines # <<>> /\ isblank(Head(lines)) THEN Tail(lines) ELSE lines,
         LAMBDA body :
    Bind(NormalizeLoop(body, <<>>, <<>>), LAMBDA result :
    join(PopBlank(result)))))

_normalize_text(text) ==
    Bind(SkipBlank(splitlines(text)), LAMBDA lines :
    Bind(NormalizeLoop(lines, <<>>, <<>>), LAMBDA result :
    join(PopBlank(result))))

(***************************************************************************)
(* Markdown with whole-line bold, and the Plasma HTML of the widgets.      *)
(***************************************************************************)
NonEmpty(s) == s # <<>>

\* one line of _normalize_markdown_bold: the canonical line and its bold
\* item (empty when the line has none)
MdLine(raw_line) ==
    IF isblank(raw_line) THEN [md |-> <<>>, item |-> <<>>]
    ELSE Bind(_LIST_PREFIX_RE(raw_line), LAMBDA m :
         Bind(_unwrap_md_bold(IF m.matched THEN m.rest ELSE raw_line), LAMBDA inner :
         IF inner = NoValue THEN [md |-> raw_line, item |-> <<>>]
         ELSE [md |-> (IF m.matched THEN m.prefix ELSE <<>>)
                        \o Stars \o inner \o Stars,
               item |-> strip(inner)]))

\* returns md_norm and items; plain_norm feeds the log only
_normalize_markdown_bold(md_text) ==
    Bind(splitlines(md_text), LAMBDA lines :
    Bind(<<>> \o [i \in 1..Len(lines) |-> MdLine(lines[i])], LAMBDA out :
    [md_norm |-> _normalize_text(join([i \in 1..Len(out) |-> out[i].md])),
     items |-> SelectSeq([i \in 1..Len(out) |-> out[i].item], NonEmpty)]))

\* the <p> block _markdown_to_plasma_html emits for one canonical line
MdBlock(line) ==
    IF isblank(line) THEN EmptyParagraph
    ELSE Bind(_LIST_PREFIX_RE(line), LAMBDA m :
         Bind(_unwrap_md_bold(IF m.matched THEN m.rest ELSE line), LAMBDA inner :
         IF inner = NoValue THEN P(<<Seg(line, FALSE)>>)
         ELSE IF m.matched THEN P(<<Seg(m.prefix, FALSE), Seg(inner, TRUE)>>)
         ELSE P(<<Seg(inner, TRUE)>>)))

_markdown_to_plasma_html(md_text) ==
    Bind(splitlines(_normalize_markdown_bold(md_text).md_norm), LAMBDA lines :
    Html("daemon", TRUE, <<>> \o [i \in 1..Len(lines) |-> MdBlock(lines[i])]))

\* the digest of _items_hash, kept as the list it is computed from
_items_hash(items) ==
    SelectSeq(<<>> \o [i \in 1..Len(items) |-> strip(items[i])], NonEmpty)

_bold_items_to_plasma_html(items) ==
    Bind(_items_hash(items), LAMBDA norm :
    Html("daemon", TRUE, <<>> \o [i \in 1..Len(norm) |-> P(<<Seg(norm[i], TRUE)>>)]))

_looks_like_complete_html(s) == s.kind = "html" /\ s.complete

\* _PlasmaHTMLParser: one string per block, "\n" for a <br>
RECURSIVE BlockTexts(_)
BlockTexts(blocks) ==
    IF blocks = <<>> THEN <<>>
    ELSE Bind(Head(blocks), LAMBDA b :
         Bind(BlockTexts(Tail(blocks)), LAMBDA rest :
         (IF b.br THEN <<<<>>, <<>>>>
          ELSE <<concat([i \in 1..Len(b.segs) |-> b.segs[i].t])>>) \o rest))

_html_to_text(html_src) == _normalize_text(join(BlockTexts(html_src.blocks)))

\* _PlasmaBoldAwareParser: the lines as the tags open them (a <br> and the
\* end of a block each start a new line)
RECURSIVE ParserLines(_)
ParserLines(blocks) ==
    IF blocks = <<>> THEN <<<<>>>>
    ELSE Bind(ParserLines(Tail(blocks)), LAMBDA rest :
         (IF Head(blocks).br THEN <<<<>>, <<>>>> ELSE <<Head(blocks).segs>>) \o rest)

\* get_lines: adjacent segments of the same weight are merged
RECURSIVE MergeSegs(_)
MergeSegs(line) ==
    IF line = <<>> THEN <<>>
    ELSE Bind(MergeSegs(SubSeq(line, 1, Len(line) - 1)), LAMBDA merged :
         Bind(Last(line), LAMBDA s :
         IF s.t = <<>> THEN merged
         ELSE IF merged # <<>> /\ Last(merged).b = s.b
         THEN [merged EXCEPT ![Len(merged)].t = @ \o s.t]
         ELSE Append(merged, s)))

txt(ln) == concat(<<>> \o [i \in 1..Len(ln) |-> ln[i].t])

has_bold(ln) == \E i \in 1..Len(ln) : ln[i].b

\* get_lines: blank lines at both ends go, runs of blank lines shrink to one
RECURSIVE TrimLines(_)
TrimLines(lines) ==
    IF lines # <<>> /\ isblank(txt(Head(lines))) THEN TrimLines(Tail(lines))
    ELSE IF lines # <<>> /\ isblank(txt(Last(lines)))
    THEN TrimLines(SubSeq(lines, 1, Len(lines) - 1))
    ELSE lines

RECURSIVE CollapseLines(_)
CollapseLines(lines) ==
    IF Len(lines) < 2 THEN lines
    ELSE Bind(CollapseLines(SubSeq(lines, 1, Len(lines) - 1)), LAMBDA out :
         IF isblank(txt(Last(lines))) /\ isblank(txt(Last(out)))
         THEN out ELSE Append(out, Last(lines)))

_plasma_html_to_boldaware_lines(html_src) ==
    Bind(ParserLines(html_src.blocks), LAMBDA raw :
    Bind(<<>> \o [i \in 1..Len(raw) |-> MergeSegs(raw[i])], LAMBDA merged_lines :
    Bind(TrimLines(merged_lines), LAMBDA trimmed :
    CollapseLines(trimmed))))

\* one markdown line of _main_html_to_markdown_and_items
HtmlLine(ln) ==
    Bind(txt(ln), LAMBDA plain_line :
    IF isblank(plain_line) THEN <<>>
    ELSE IF has_bold(ln) THEN _wrap_md_bold_line(plain_line) ELSE plain_line)

_main_html_to_markdown_and_items(html_raw) ==
    Bind(_plasma_html_to_boldaware_lines(html_raw), LAMBDA lines :
    Bind(_normalize_text(join(<<>> \o [i \in 1..Len(lines) |-> HtmlLine(lines[i])])),
         LAMBDA md_candidate :
    _normalize_markdown_bold(md_candidate)))

(***************************************************************************)
(* Mirror -> main: the bold region of a line is replaced by one item.      *)
(***************************************************************************)
\* a variant that sets the whole line to the item
_replace_bold_region_whole(line, item) ==
    IF ~(\E i \in 1..Len(line) : line[i].b) THEN line ELSE <<Seg(item, TRUE)>>

_replace_bold_region_preserve(line, item) ==
    LET idxs == {i \in 1..Len(line) : line[i].b}
    IN IF idxs = {} THEN line
       ELSE LET first == CHOOSE i \in idxs : \A j \in idxs : i <= j
                final == CHOOSE i \in idxs : \A j \in idxs : j <= i
            IN [i \in 1..(first - 1) |-> Seg(line[i].t, FALSE)]
                 \o <<Seg(item, TRUE)>>
                 \o [i \in 1..(Len(line) - final) |-> Seg(line[final + i].t, FALSE)]

\* the loops of _replace_bold_items_in_lines over the lines and items left
RECURSIVE ReplaceLoop(_, _)
ReplaceLoop(main_lines, items) ==
    IF main_lines = <<>> THEN <<>> \o [i \in 1..Len(items) |-> <<Seg(items[i], TRUE)>>]
    ELSE IF has_bold(Head(main_lines)) /\ items # <<>>
    THEN Bind(ReplaceLoop(Tail(main_lines), Tail(items)), LAMBDA rest :
              <<_replace_bold_region_preserve(Head(main_lines), Head(items))>> \o rest)
    ELSE Bind(ReplaceLoop(Tail(main_lines), items), LAMBDA rest :
              <<Head(main_lines)>> \o rest)

_replace_bold_items_in_lines(main_lines, new_items) ==
    Bind(_items_hash(new_items), LAMBDA items : ReplaceLoop(main_lines, items))

BoldAwareBlock(ln) == IF isblank(txt(ln)) THEN EmptyParagraph ELSE P(ln)

_boldaware_lines_to_plasma_html(lines) ==
    Html("daemon", TRUE, <<>> \o [i \in 1..Len(lines) |-> BoldAwareBlock(lines[i])])

(***************************************************************************)
(* The module's state and files as one value s, threaded through a call    *)
(* of _handle; s.wrote collects the keys of the change map ("ignore").     *)
(***************************************************************************)
Snapshot ==
    [disk |-> disk, md_hash |-> _CURRENT_MD_HASH, main_bold |-> _MAIN_BOLD_HASH,
     note_items |-> _BOLD_NOTE_ITEMS_HASH, init_done |-> _INIT_DONE, wrote |-> {},
     failed |-> {}]

\* _read_file of the markdown note: "" when the file does not exist
_read_file(s) ==
    IF s.disk[markdown_path] = Missing THEN EmptyText ELSE s.disk[markdown_path]

\* writes unless the content is there already; a failing write changes no
\* file and returns False, so that the path gets no key in the change map
_write_if_changed(s, path, content) ==
    LET old == IF path = markdown_path THEN _read_file(s) ELSE s.disk[path]
    IN IF old = content THEN s
       ELSE IF path \in readonly THEN [s EXCEPT !.failed = @ \cup {path}]
       ELSE [s EXCEPT !.disk[path] = content, !.wrote = @ \cup {path}]

\* returns [changed, s]
_update_md_state(s, md_text) ==
    Bind(_normalize_text(md_text), LAMBDA h :
    IF s.md_hash = h THEN [changed |-> FALSE, s |-> s]
    ELSE [changed |-> TRUE, s |-> [s EXCEPT !.md_hash = h]])

_init_from_disk_once(s) ==
    IF s.init_done THEN s
    ELSE LET md_raw == _read_file(s)
             main_html == s.disk[widget_path]
         IN IF md_raw # EmptyText \/ main_html.kind # "empty"
            THEN Bind(IF md_raw # EmptyText THEN _normalize_markdown_bold(md_raw)
                      ELSE _main_html_to_markdown_and_items(main_html), LAMBDA n :
                 Bind(_items_hash(n.items), LAMBDA items_h :
                 [_update_md_state(s, n.md_norm).s EXCEPT
                    !.init_done = TRUE,
                    !.main_bold = items_h,
                    !.note_items = items_h]))
            ELSE [s EXCEPT !.init_done = TRUE]

(***************************************************************************)
(* PlasmaSync._handle and its three flows.                                 *)
(***************************************************************************)
\* a variant that rewrites the note and the widget at every call, whatever
\* the digest and the files hold
_from_markdown_unguarded(s) ==
    LET write(r, path, content) ==
            IF path \in readonly THEN [r EXCEPT !.failed = @ \cup {path}]
            ELSE [r EXCEPT !.disk[path] = content, !.wrote = @ \cup {path}]
    IN Bind(_normalize_markdown_bold(_read_file(s)), LAMBDA n :
       Bind(_update_md_state(s, n.md_norm), LAMBDA u :
       Bind(write(u.s, markdown_path, n.md_norm), LAMBDA s1 :
       write(s1, widget_path, _markdown_to_plasma_html(n.md_norm)))))

_from_markdown(s) ==
    IF s.disk[markdown_path] = Missing THEN s
    ELSE
    Bind(_normalize_markdown_bold(_read_file(s)), LAMBDA n :
    Bind(_update_md_state(s, n.md_norm), LAMBDA u :
    Bind(IF _read_file(s) # n.md_norm
         THEN _write_if_changed(u.s, markdown_path, n.md_norm) ELSE u.s, LAMBDA s1 :
    IF ~u.changed /\ s1.wrote = {} THEN s1
    ELSE
    Bind(_write_if_changed(s1, widget_path, _markdown_to_plasma_html(n.md_norm)),
         LAMBDA s2 :
    Bind(_items_hash(n.items), LAMBDA items_h :
    Bind([s2 EXCEPT !.main_bold = items_h, !.note_items = items_h], LAMBDA s3 :
    IF bold_configured
    THEN _write_if_changed(s3, bold_widget_path, _bold_items_to_plasma_html(n.items))
    ELSE s3))))))

_from_main_plasma(s) ==
    LET html_raw == s.disk[widget_path] IN
    IF html_raw.kind = "empty" \/ ~_looks_like_complete_html(html_raw) THEN s
    ELSE
    Bind(_main_html_to_markdown_and_items(html_raw), LAMBDA n :
    Bind(_update_md_state(s, n.md_norm), LAMBDA u :
    Bind(_write_if_changed(u.s, markdown_path, n.md_norm), LAMBDA s1 :
    Bind(_items_hash(n.items), LAMBDA items_h :
    Bind(IF bold_configured
            /\ (s1.main_bold # items_h \/ s1.note_items # items_h)
         THEN [_write_if_changed(s1, bold_widget_path,
                                 _bold_items_to_plasma_html(n.items))
                 EXCEPT !.note_items = items_h]
         ELSE s1, LAMBDA s2 :
    [s2 EXCEPT !.main_bold = items_h])))))

_from_bold_mirror(s) ==
    LET bold_html_raw == s.disk[bold_widget_path]
        main_html_raw == s.disk[widget_path]
    IN
    IF bold_html_raw.kind = "empty" THEN s
    ELSE
    Bind(_items_hash(splitlines(_html_to_text(bold_html_raw))), LAMBDA items_h :
    IF s.note_items = items_h THEN s
    ELSE
    Bind([s EXCEPT !.note_items = items_h], LAMBDA s0 :
    IF main_html_raw.kind = "empty" \/ ~_looks_like_complete_html(main_html_raw)
    THEN s0
    ELSE
    Bind(_plasma_html_to_boldaware_lines(main_html_raw), LAMBDA main_lines :
    Bind(_replace_bold_items_in_lines(main_lines, items_h), LAMBDA new_lines :
    Bind(_boldaware_lines_to_plasma_html(new_lines), LAMBDA new_main_html :
    Bind(_write_if_changed(s0, widget_path, new_main_html), LAMBDA s1 :
    Bind(_main_html_to_markdown_and_items(new_main_html), LAMBDA n :
    Bind(_write_if_changed(_update_md_state(s1, n.md_norm).s,
                           markdown_path, n.md_norm), LAMBDA s2 :
    Bind(_write_if_changed(s2, bold_widget_path,
                           _bold_items_to_plasma_html(n.items)), LAMBDA s3 :
    Bind(_items_hash(n.items), LAMBDA new_h :
    [s3 EXCEPT !.main_bold = new_h, !.note_items = new_h]))))))))))

_handle(s, path) ==
    Bind(_init_from_disk_once(s), LAMBDA s1 :
    IF path = markdown_path THEN _from_markdown(s1)
    ELSE IF bold_configured /\ path = bold_widget_path THEN _from_bold_mirror(s1)
    ELSE IF path = widget_path THEN _from_main_plasma(s1)
    ELSE s1)

(***************************************************************************)
(* The synchronizer next to programs that edit its three files.  _handle   *)
(* is called for every watch event of the three files, those of the        *)
(* module's own writes included: none of them is taken to be suppressed.   *)
(***************************************************************************)
\* number of edits by other programs
MaxEdits == 1

\* the watcher reports a write of a file as 1..MaxOwed events, and at most
\* MaxOwed events of a file wait to be handled
MaxOwed == 2

SyncPaths == {markdown_path, widget_path, bold_widget_path}

A == <<"a">>

\* the texts an editor may leave in the markdown note:
\*   "**- a**",  "- ** a **\n",  "\n\n- a\n\n- **a**",  "a:\n\n- ****",  ""
MdEdits ==
    {<<Stars \o Dash \o A \o Stars>>,
     <<Dash \o Stars \o <<" ", "a", " ">> \o Stars, <<>>>>,
     <<<<>>, <<>>, Dash \o A, <<>>, Dash \o Stars \o A \o Stars>>,
     <<<<"a", ":">>, <<>>, Dash \o Stars \o Stars>>,
     EmptyText}

\* what Plasma may leave in the main widget; the fourth is a partial write
WidgetEdits ==
    {Html("plasma", TRUE, <<P(<<Seg(Dash, FALSE), Seg(A, TRUE)>>), EmptyParagraph,
                            EmptyParagraph, P(<<Seg(A, FALSE)>>)>>),
     Html("plasma", TRUE, <<P(<<Seg(Dash \o A, TRUE)>>)>>),
     Html("plasma", TRUE, <<P(<<Seg(A, TRUE), Seg(A, TRUE)>>),
                            P(<<Seg(<<" ">>, FALSE)>>)>>),
     Html("plasma", FALSE, <<P(<<Seg(A, TRUE)>>)>>),
     EmptyFile}

\* what Plasma may leave in the bold mirror
MirrorEdits ==
    {Html("plasma", TRUE, <<P(<<Seg(A, TRUE)>>), P(<<Seg(Dash \o A, TRUE)>>)>>),
     Html("plasma", TRUE, <<>>),
     Html("plasma", TRUE, <<P(<<Seg(<<" ", "a", " ">>, FALSE)>>), EmptyParagraph>>)}

Disk(md, widget, mirror) ==
    [p \in SyncPaths |-> IF p = markdown_path THEN md
                         ELSE IF p = widget_path THEN widget ELSE mirror]

\* the files the daemon finds when it starts: none; the three files as an
\* earlier run left them for the note "- **a**\na"; a note next to a widget
\* that Plasma wrote; a note next to a widget that Plasma is writing
InitialDisks ==
    {Disk(Missing, EmptyFile, EmptyFile),
     Disk(<<Dash \o Stars \o A \o Stars, A>>,
          _markdown_to_plasma_html(<<Dash \o Stars \o A \o Stars, A>>),
          _bold_items_to_plasma_html(<<A>>)),
     Disk(<<A>>, Html("plasma", TRUE, <<P(<<Seg(A, FALSE)>>)>>), EmptyFile),
     Disk(<<A>>, Html("plasma", FALSE, <<P(<<Seg(A, FALSE)>>)>>), EmptyFile)}

InitSync ==
    /\ DispatchIdle
    /\ GitIdle
    /\ ArgsIdle
    /\ TextIdle
    /\ ThreadIdle
    /\ SyncStart
    /\ disk \in InitialDisks
    /\ bold_configured \in BOOLEAN
    /\ readonly \in {{}, {markdown_path}, {widget_path}}

\* the events unhandled after n more events for each file of written
Report(o, written, n) ==
    [p \in SyncPaths |-> IF p \in written THEN Min2(MaxOwed, o[p] + n) ELSE o[p]]

\* the events unhandled after one event of path is taken
Take(path) ==
    [p \in SyncPaths |-> IF p = path THEN unhandled[p] - 1 ELSE unhandled[p]]

\* PlasmaSync.created / modified / moved with Context.path = path, for an
\* event of one of the three files that the watcher owes, or for an event
\* of another file; each write of the call is reported as n events
Handle(path, n) ==
    \E s \in {_handle(Snapshot, path)} :
       /\ path \in SyncPaths => unhandled[path] > 0
       /\ unhandled' = Report(Take(path), s.wrote, n)
       /\ disk' = s.disk
       /\ _CURRENT_MD_HASH' = s.md_hash
       /\ _MAIN_BOLD_HASH' = s.main_bold
       /\ _BOLD_NOTE_ITEMS_HASH' = s.note_items
       /\ _INIT_DONE' = s.init_done
       /\ wrote' = s.wrote
       /\ calls' = 1 - calls
       /\ last_path' = path
       /\ prev_path' = last_path
       /\ prev_wrote' = wrote
       /\ failed' = s.failed
       /\ UNCHANGED <<bold_configured, readonly, edits>>
       /\ UNCHANGED <<dispatch_vars, git_vars, args_vars, text_vars, thread_vars>>

\* another program replaces the content of one of the files, which the
\* watcher reports as n events
ExternalEdit(path, content, n) ==
    /\ edits < MaxEdits
    /\ disk[path] # content
    /\ disk' = [disk EXCEPT ![path] = content]
    /\ unhandled' = Report(unhandled, {path}, n)
    /\ edits' = edits + 1
    /\ wrote' = {}
    /\ last_path' = NoPath
    /\ prev_path' = NoPath
    /\ prev_wrote' = {}
    /\ failed' = {}
    /\ UNCHANGED <<_CURRENT_MD_HASH, _MAIN_BOLD_HASH, _BOLD_NOTE_ITEMS_HASH,
                   _INIT_DONE, bold_configured, readonly, calls>>
    /\ UNCHANGED <<dispatch_vars, git_vars, args_vars, text_vars, thread_vars>>

NextSync ==
    \/ \E path \in SyncPaths \cup {PB}, n \in 1..MaxOwed : Handle(path, n)
    \/ \E content \in MdEdits, n \in 1..MaxOwed :
           ExternalEdit(markdown_path, content, n)
    \/ \E content \in WidgetEdits, n \in 1..MaxOwed :
           ExternalEdit(widget_path, content, n)
    \/ \E content \in MirrorEdits, n \in 1..MaxOwed :
           ExternalEdit(bold_widget_path, content, n)

SpecSync == InitSync /\ [][NextSync]_vars

(***************************************************************************)
(* Properties of the synchronizer.                                         *)
(***************************************************************************)

\* C4 (non-oscillation): after an edit of the markdown note, the main
\* widget or the bold mirror by another program, the synchronizer writes
\* files only finitely often: from some point on no call of its handler
\* writes a file, although it is called for every event of its own writes.
C4_NonOscillation == <>[][wrote' = {}]_vars

\* after an edit, a call wrote files and the call for the event of one of
\* those writes wrote nothing
C4_Witness ==
    /\ edits = 1
    /\ prev_wrote # {}
    /\ last_path \in prev_wrote
    /\ prev_path # last_path
    /\ wrote = {}

\* C5 (idempotence of sync writes): when the handler is called for a path
\* and called again for the same path with no file changed in between, the
\* second call writes no file and returns no change map.
C5_Idempotent ==
    (last_path # NoPath /\ prev_path = last_path) => wrote = {}

\* the first of two calls in a row for one path wrote files
C5_Witness ==
    /\ edits = 1
    /\ last_path # NoPath
    /\ prev_path = last_path
    /\ prev_wrote # {}

(***************************************************************************)
(* The flags (lib/args.py).  A token is a string; a line of a file is the  *)
(* sequence of its tokens as shlex.split returns them.  Parsed values:     *)
(* None is NoValue, the others carry their Python type.                    *)
(***************************************************************************)
PyBool(b) == <<"bool", b>>
PyStr(s) == <<"str", s>>
PyInt(n) == <<"int", n>>
PyList(items) == <<"list", items>>

isinstance_list(value) == value[1] = "list"

\* value in (None, "")
not_provided(value) == value = NoValue \/ value = PyStr("")

\* a template entry; dest is flag.lstrip("-").replace("-", "_")
Entry(flag, dest, typ, default) ==
    [flag |-> flag, dest |-> dest, typ |-> typ, default |-> default]

\* ModuleManager.template: its own flags and those of Banner and Renamer
GlobalTemplate ==
    <<Entry("--force", "force", "str", PyList(<<>>)),
      Entry("--exclude", "exclude", "str", PyList(<<>>)),
      Entry("--sys-priority", "sys_priority", "str", NoValue),
      Entry("--sys-use_only_first_line", "sys_use_only_first_line", "bool",
            PyBool(FALSE)),
      Entry("--banner", "banner", "str", NoValue),
      Entry("--auto-rename", "auto_rename", "bool", PyBool(FALSE))>>

TEMPLATE_STARTUP_ARGS ==
    <<Entry("--sys-config-path", "sys_config_path", "str", PyStr("config.txt")),
      Entry("--sys-debug", "sys_debug", "bool", PyBool(FALSE)),
      Entry("--sys-notes-dirs", "sys_notes_dirs", "str", NoValue),
      Entry("--sys-on-open-cooldown", "sys_on_open_cooldown", "int", PyInt(20))>>

\* the tokens of the model that have the form --<letter><letters, digits, _, ->
is_valid_flag_token(token) ==
    token \in {GlobalTemplate[j].flag : j \in 1..Len(GlobalTemplate)}
          \cup {TEMPLATE_STARTUP_ARGS[j].flag : j \in 1..Len(TEMPLATE_STARTUP_ARGS)}
          \cup {"--zz"}

\* int(token): the tokens that are decimal numbers
int(token) == CASE token = "5" -> 5 [] token = "7" -> 7 [] OTHER -> -1

\* the values an option with nargs="+" takes at position i: the tokens up to
\* the next token that looks like a flag
RECURSIVE ValueRun(_, _)
ValueRun(args, i) ==
    IF i > Len(args) \/ is_valid_flag_token(args[i]) THEN <<>>
    ELSE <<args[i]>> \o ValueRun(args, i + 1)

\* argparse.ArgumentParser.parse_known_args over the template's options;
\* ok is FALSE where argparse reports an error and raises SystemExit
RECURSIVE parse_known_args(_, _, _, _, _)
parse_known_args(tmpl, args, i, namespace, unknown_args) ==
    IF i > Len(args)
    THEN [ok |-> TRUE, namespace |-> namespace, unknown_args |-> unknown_args]
    ELSE LET hit == {j \in 1..Len(tmpl) : tmpl[j].flag = args[i]}
         IN IF hit = {}
            THEN parse_known_args(tmpl, args, i + 1, namespace,
                                  Append(unknown_args, args[i]))
            ELSE LET e == tmpl[CHOOSE j \in hit : TRUE]
                     run_ == ValueRun(args, i + 1)
                 IN IF e.typ = "bool"
                    THEN parse_known_args(tmpl, args, i + 1,
                             DictPut(namespace, e.dest, PyBool(TRUE)),
                             unknown_args)
                    ELSE IF run_ = <<>>
                            \/ (e.typ = "int"
                                /\ \E k \in 1..Len(run_) : int(run_[k]) < 0)
                    THEN [ok |-> FALSE, namespace |-> namespace,
                          unknown_args |-> unknown_args]
                    ELSE parse_known_args(tmpl, args, i + 1 + Len(run_),
                             DictPut(namespace, e.dest,
                                 PyList(IF e.typ = "int"
                                        THEN [k \in 1..Len(run_) |-> int(run_[k])]
                                        ELSE run_)),
                             unknown_args)

\* returns <<known, unknown>>; a flag that is absent has its default, the
\* object held by the template
parse_args(args, tmpl) ==
    LET r == parse_known_args(tmpl, args, 1,
                 [d \in {tmpl[j].dest : j \in 1..Len(tmpl)} |->
                    tmpl[CHOOSE j \in 1..Len(tmpl) : tmpl[j].dest = d].default],
                 <<>>)
    IN IF r.ok THEN <<r.namespace, r.unknown_args>> ELSE <<EmptyDict, args>>

\* the lines of a config file: blank lines and comments are dropped, the
\* tokens of the others concatenated
RECURSIVE config_args_raw(_)
config_args_raw(lines) ==
    IF lines = <<>> THEN <<>>
    ELSE (IF lines[1] = <<>> \/ lines[1][1] = "#" THEN <<>> ELSE lines[1])
         \o config_args_raw(Tail(lines))

get_config_args(lines, tmpl) == parse_args(config_args_raw(lines), tmpl)

merge_known_args(args, overwrite_args) ==
    LET given == {key \in DOMAIN overwrite_args :
                    ~not_provided(overwrite_args[key])}
    IN [key \in (DOMAIN args) \cup given |->
          IF key \in given THEN overwrite_args[key] ELSE args[key]]

\* files maps the names of the files that exist to their lines;
\* known_startup_args["sys_config_path"][0] is the first value of the flag
\* or, for the default "config.txt", its first character
setup_config_and_cli_args(tmpl, argv, files) ==
    LET startup == parse_args(argv, tmpl)
        given == startup[1]["sys_config_path"]
        path == IF isinstance_list(given) THEN given[2][1] ELSE "c"
    IN IF path \notin DOMAIN files THEN startup
       ELSE LET cfg == get_config_args(files[path], tmpl)
            IN <<merge_known_args(cfg[1], startup[1]), cfg[2] \o startup[2]>>

\* the directive lines get_args_from_file examines: those that start with a
\* valid flag token, the first line only when only_first_line is set
ExaminedLines(lines, only_first_line) ==
    {n \in 1..Len(lines) :
       /\ only_first_line => n = 1
       /\ lines[n] # <<>>
       /\ lines[n][1] # "#"
       /\ is_valid_flag_token(lines[n][1])}

\* the body of the loop over the lines, for one examined line.  st holds
\* merged_known, merged_unknown, arg_lines, the template (whose default
\* lists are objects that merged_known can hold and extend in place) and
\* shared, the keys of merged_known whose value is the template's object
DirectiveLine(st, tokens, lineno) ==
    LET parsed_ == parse_args(tokens, st.template)
        line_known == parsed_[1]
        line_unknown == parsed_[2]
        given == {key \in DOMAIN line_known : ~not_provided(line_known[key])}
        fresh(key) == key \notin DOMAIN st.merged_known
                        \/ not_provided(st.merged_known[key])
        extends(key) == /\ key \in given
                        /\ ~fresh(key)
                        /\ isinstance_list(st.merged_known[key])
                        /\ isinstance_list(line_known[key])
        value(key) == IF extends(key)
                      THEN PyList(st.merged_known[key][2] \o line_known[key][2])
                      ELSE line_known[key]
        is_default(key) ==
            \A j \in 1..Len(st.template) :
               st.template[j].dest = key =>
                  \A k \in 1..Len(tokens) : tokens[k] # st.template[j].flag
        count(key) == IF isinstance_list(line_known[key])
                      THEN Len(line_known[key][2]) ELSE 1
        lines_of(key) == DictGet(st.arg_lines, key, <<>>)
    IN [merged_known |->
          [key \in (DOMAIN st.merged_known) \cup given |->
             IF key \in given THEN value(key) ELSE st.merged_known[key]],
        merged_unknown |-> st.merged_unknown \o line_unknown,
        arg_lines |->
          [key \in (DOMAIN st.arg_lines) \cup given |->
             IF key = "__unknown__"
             THEN lines_of(key) \o [k \in 1..Len(line_unknown) |-> lineno]
             ELSE IF key \in given
             THEN lines_of(key) \o [k \in 1..count(key) |-> lineno]
             ELSE lines_of(key)],
        template |->
          [j \in 1..Len(st.template) |->
             IF extends(st.template[j].dest) /\ st.template[j].dest \in st.shared
             THEN [st.template[j] EXCEPT !.default = value(st.template[j].dest)]
             ELSE st.template[j]],
        shared |->
          {key \in given : IF extends(key) THEN key \in st.shared
                           ELSE is_default(key)}
             \cup (st.shared \ given)]

RECURSIVE DirectiveLines(_, _, _, _)
DirectiveLines(st, lines, only_first_line, lineno) ==
    IF lineno > Len(lines) THEN st
    ELSE IF lineno \in ExaminedLines(lines, only_first_line)
    THEN DirectiveLines(
             Bind(st, LAMBDA s : DirectiveLine(s, lines[lineno], lineno)),
             lines, only_first_line, lineno + 1)
    ELSE DirectiveLines(st, lines, only_first_line, lineno + 1)

\* returns merged_known, merged_unknown and arg_lines, with the template as
\* the call leaves it; a file without lines gives ({}, [], {})
get_args_from_file(lines, tmpl, only_first_line) ==
    DirectiveLines([merged_known |-> EmptyDict, merged_unknown |-> <<>>,
                    arg_lines |-> IF lines = <<>> THEN EmptyDict
                                  ELSE [key \in {"__unknown__"} |-> <<>>],
                    template |-> tmpl, shared |-> {}],
                   lines, only_first_line, 1)

(***************************************************************************)
(* ModuleManager and the flags of a file: __init__ parses the startup      *)
(* arguments, every _update_config() of run parses the directives of the   *)
(* file and merges them over the stored config.                            *)
(***************************************************************************)
MaxLines == 2
MaxParses == 2

\* the lines a note may hold
NoteLines ==
    {<<"--auto-rename">>, <<"--banner", "x">>, <<"--force", "x">>,
     <<"--exclude", "x">>,
     <<"--auto-rename", "--banner", "y">>, <<"--banner">>, <<"--zz", "x">>,
     <<"prose">>, <<>>}

Notes == UNION {[1..n -> NoteLines] : n \in 0..MaxLines}

\* the arguments main.py hands to ModuleManager
StartupArgs ==
    {<<>>, <<"--auto-rename">>, <<"--sys-use_only_first_line">>,
     <<"--force", "x">>, <<"--exclude", "x">>, <<"--banner", "y">>}

\* ModuleManager.__init__: self.config holds the template's default object
\* for every flag that is absent
ModuleManager(args) ==
    [values |-> parse_args(args, GlobalTemplate)[1],
     shared |-> {GlobalTemplate[j].dest : j \in
                   {j \in 1..Len(GlobalTemplate) :
                      \A k \in 1..Len(args) : args[k] # GlobalTemplate[j].flag}}]

InitArgs ==
    /\ DispatchIdle
    /\ GitIdle
    /\ SyncIdle
    /\ TextIdle
    /\ ThreadIdle
    /\ \E args \in StartupArgs :
         /\ template = GlobalTemplate
         /\ self_config = ModuleManager(args)
         /\ boot = [phase |-> "up", args |-> args,
                    config |-> ModuleManager(args).values]
    /\ ctx = [done |-> FALSE]
    /\ parses = 0

\* ModuleManager.run._update_config for a file that holds the given lines
_update_config(lines) ==
    /\ parses < MaxParses
    /\ parses' = parses + 1
    /\ \E only_first_line \in
            {self_config.values["sys_use_only_first_line"] = PyBool(TRUE)} :
       \E r \in {get_args_from_file(lines, template, only_first_line)} :
       \E values \in
            {[key \in DOMAIN self_config.values |->
                IF key \in self_config.shared
                THEN r.template[CHOOSE j \in 1..Len(r.template) :
                                  r.template[j].dest = key].default
                ELSE self_config.values[key]]} :
         /\ template' = r.template
         /\ self_config' = [self_config EXCEPT !.values = values]
         /\ ctx' = [done |-> TRUE, lines |-> lines,
                    only_first_line |-> only_first_line,
                    known_args |-> r.merged_known,
                    arg_lines |-> r.arg_lines,
                    config |-> merge_known_args(values, r.merged_known)]
    /\ UNCHANGED boot
    /\ UNCHANGED <<dispatch_vars, git_vars, sync_vars, text_vars, thread_vars>>

NextArgs == \E lines \in Notes : _update_config(lines)

SpecArgs == InitArgs /\ [][NextArgs]_vars

(***************************************************************************)
(* The startup of main.py: setup_config_and_cli_args over sys.argv and the *)
(* config file, then ModuleManager over the arguments left unknown.        *)
(***************************************************************************)
MaxConfigLines == 2

Argvs ==
    {<<>>,
     <<"--sys-debug", "--sys-notes-dirs", "/n">>,
     <<"--sys-config-path", "my.txt">>,
     <<"--sys-config-path", "my.txt", "--sys-debug">>,
     <<"--sys-config-path", "my.txt", "--sys-on-open-cooldown", "7">>,
     <<"--sys-config-path", "my.txt", "--auto-rename">>}

ConfigLines ==
    {<<"--sys-debug">>, <<"--sys-on-open-cooldown", "5">>,
     <<"--sys-notes-dirs", "/n">>, <<"--auto-rename">>, <<"#", "note">>}

\* the config files that may exist: one file, named my.txt or config.txt
ConfigFiles ==
    {[name \in {n} |-> lines] :
       n \in {"my.txt", "config.txt"},
       lines \in UNION {[1..k -> ConfigLines] : k \in 0..MaxConfigLines}}

InitStartup ==
    /\ DispatchIdle
    /\ GitIdle
    /\ SyncIdle
    /\ TextIdle
    /\ ThreadIdle
    /\ template = <<>>
    /\ self_config = [values |-> EmptyDict, shared |-> {}]
    /\ boot \in {[phase |-> "start", argv |-> argv, files |-> files] :
                   argv \in Argvs, files \in ConfigFiles}
    /\ ctx = [done |-> FALSE]
    /\ parses = 0

\* main.py 60-62
Startup ==
    /\ boot.phase = "start"
    /\ \E r \in {setup_config_and_cli_args(TEMPLATE_STARTUP_ARGS, boot.argv,
                                           boot.files)} :
         /\ boot' = [phase |-> "up", argv |-> boot.argv, files |-> boot.files,
                     config |-> r[1], unknown_args |-> r[2]]
         /\ template' = GlobalTemplate
         /\ self_config' = ModuleManager(r[2])
    /\ UNCHANGED <<ctx, parses>>
    /\ UNCHANGED <<dispatch_vars, git_vars, sync_vars, text_vars, thread_vars>>

NextStartup == Startup

SpecStartup == InitStartup /\ [][NextStartup]_vars

(***************************************************************************)
(* Properties of the flags.                                                *)
(***************************************************************************)
\* the flag is written on an examined directive line of the file
Written(flag, lines, only_first_line) ==
    \E n \in ExaminedLines(lines, only_first_line) :
       \E k \in 1..Len(lines[n]) : lines[n][k] = flag

\* C16: a switch that is written on at least one examined directive line of
\* a file is true in the map parsed from the file, whatever the other
\* directive lines hold.
C16_SwitchTrue ==
    ctx.done =>
       \A j \in 1..Len(GlobalTemplate) :
          (/\ GlobalTemplate[j].typ = "bool"
           /\ Written(GlobalTemplate[j].flag, ctx.lines, ctx.only_first_line))
          => /\ GlobalTemplate[j].dest \in DOMAIN ctx.known_args
             /\ ctx.known_args[GlobalTemplate[j].dest] = PyBool(TRUE)

\* C17: for every key, arg_lines lists only lines on which the flag of the
\* key is written, and as many of them as values are held for the key (for
\* a switch, as many as lines on which it is written).
C17_ArgLines ==
    ctx.done =>
       \A j \in 1..Len(GlobalTemplate) :
          LET key == GlobalTemplate[j].dest
              flag == GlobalTemplate[j].flag
              held == DictGet(ctx.arg_lines, key, <<>>)
              on(n) == \E k \in 1..Len(ctx.lines[n]) : ctx.lines[n][k] = flag
          IN /\ \A i \in 1..Len(held) : held[i] \in 1..Len(ctx.lines) /\ on(held[i])
             /\ key \in DOMAIN ctx.arg_lines =>
                  /\ key \in DOMAIN ctx.known_args
                  /\ Len(held) =
                       IF isinstance_list(ctx.known_args[key])
                       THEN Len(ctx.known_args[key][2])
                       ELSE Cardinality({n \in ExaminedLines(ctx.lines,
                                            ctx.only_first_line) : on(n)})

\* C18: in the config merged for an event, a key whose flag is not written
\* in the file has the value of the startup config, and the config stored
\* by the Module Manager stays what it was after construction.
C18_StartupKept ==
    /\ ctx.done =>
         \A j \in 1..Len(GlobalTemplate) :
            ~Written(GlobalTemplate[j].flag, ctx.lines, ctx.only_first_line)
            => ctx.config[GlobalTemplate[j].dest]
                 = boot.config[GlobalTemplate[j].dest]
    /\ boot.phase = "up" => self_config.values = boot.config

\* C19: at startup a system flag written on the command line has the value
\* given there, and a system flag written only in the config file (the file
\* named by --sys-config-path, config.txt when it is not given) has the
\* value given in the file.
C19_CliOverConfig ==
    boot.phase = "up" /\ "argv" \in DOMAIN boot =>
       LET cli == parse_args(boot.argv, TEMPLATE_STARTUP_ARGS)[1]
           given == cli["sys_config_path"]
           path == IF isinstance_list(given) THEN given[2][1] ELSE "config.txt"
           lines == IF path \in DOMAIN boot.files THEN boot.files[path] ELSE <<>>
           file == get_config_args(lines, TEMPLATE_STARTUP_ARGS)[1]
           raw == config_args_raw(lines)
       IN \A j \in 1..Len(TEMPLATE_STARTUP_ARGS) :
             LET flag == TEMPLATE_STARTUP_ARGS[j].flag
                 key == TEMPLATE_STARTUP_ARGS[j].dest
                 on_cli == \E k \in 1..Len(boot.argv) : boot.argv[k] = flag
                 in_file == \E k \in 1..Len(raw) : raw[k] = flag
             IN /\ on_cli => boot.config[key] = cli[key]
                /\ (~on_cli /\ in_file) => boot.config[key] = file[key]

(***************************************************************************)
(* The text conversions of plasma_sync.py taken alone: each is called on   *)
(* arguments drawn from a bounded set, and conv keeps the arguments next   *)
(* to the results.                                                         *)
(***************************************************************************)
\* lines of a markdown text
MaxTextLines == 3

\* lines of the main widget, and items of the mirror
MaxMainLines == 3

MaxItems == 3

\* the lines of the markdown texts: "", "a", "**a**", "****", "** a **" and
\* "a:", each bare, behind "- " or behind " "
MdLines ==
    {prefix \o core :
        prefix \in {<<>>, Dash, <<" ">>},
        core \in {<<>>, A, Stars \o A \o Stars, Stars \o Stars,
                  Stars \o <<" ", "a", " ">> \o Stars, <<"a", ":">>}}

MdTexts == UNION {[1..n -> MdLines] : n \in 1..MaxTextLines}

\* the lines of the main widget as the parser tells them: a blank line, "a",
\* bold "a", "- " before bold "a", the same before "a", and two bold "a"
\* around a blank
SegLines ==
    {<<>>,
     <<Seg(A, FALSE)>>,
     <<Seg(A, TRUE)>>,
     <<Seg(Dash, FALSE), Seg(A, TRUE)>>,
     <<Seg(Dash, FALSE), Seg(A, TRUE), Seg(A, FALSE)>>,
     <<Seg(A, TRUE), Seg(<<" ">>, FALSE), Seg(A, TRUE)>>}

\* what get_lines returns: no blank line at either end, no two in a row
MainLines ==
    {D \in UNION {[1..n -> SegLines] : n \in 0..MaxMainLines} :
        CollapseLines(TrimLines(D)) = D}

\* the items _from_bold_mirror reads off the mirror: stripped, none empty
MirrorItems == UNION {[1..n -> {<<"b">>, <<"b", " ", "c">>}] : n \in 0..MaxItems}

InitText ==
    /\ DispatchIdle
    /\ GitIdle
    /\ SyncIdle
    /\ ArgsIdle
    /\ ThreadIdle
    /\ \/ \E md_text \in MdTexts : conv = [phase |-> "md_text", md_text |-> md_text]
       \/ \E main_lines \in MainLines, new_items \in MirrorItems :
             conv = [phase |-> "main_lines", main_lines |-> main_lines,
                     new_items |-> new_items]

\* md_norm, _plain, items = _normalize_markdown_bold(md_text)
CallNormalize ==
    /\ conv.phase = "md_text"
    /\ \E n \in {_normalize_markdown_bold(conv.md_text)} :
          conv' = [phase |-> "md_norm", md_norm |-> n.md_norm, items |-> n.items]
    /\ UNCHANGED <<dispatch_vars, git_vars, sync_vars, args_vars, thread_vars>>

\* html = _markdown_to_plasma_html(md_norm)
CallToHtml ==
    /\ conv.phase = "md_norm"
    /\ conv' = [phase |-> "html", md_norm |-> conv.md_norm, items |-> conv.items,
                html |-> _markdown_to_plasma_html(conv.md_norm)]
    /\ UNCHANGED <<dispatch_vars, git_vars, sync_vars, args_vars, thread_vars>>

\* md_back, _plain, items_back = _main_html_to_markdown_and_items(html)
CallFromHtml ==
    /\ conv.phase = "html"
    /\ \E n \in {_main_html_to_markdown_and_items(conv.html)} :
          conv' = [phase |-> "parsed", md_norm |-> conv.md_norm,
                   items |-> conv.items, html |-> conv.html,
                   md_back |-> n.md_norm, items_back |-> n.items]
    /\ UNCHANGED <<dispatch_vars, git_vars, sync_vars, args_vars, thread_vars>>

\* new_lines = _replace_bold_items_in_lines(main_lines, items)
CallReplace ==
    /\ conv.phase = "main_lines"
    /\ conv' = [phase |-> "replaced", main_lines |-> conv.main_lines,
                new_items |-> conv.new_items,
                new_lines |-> _replace_bold_items_in_lines(conv.main_lines,
                                                           conv.new_items)]
    /\ UNCHANGED <<dispatch_vars, git_vars, sync_vars, args_vars, thread_vars>>

NextText == CallNormalize \/ CallToHtml \/ CallFromHtml \/ CallReplace

SpecText == InitText /\ [][NextText]_vars

\* C21: a canonical markdown text converted to the HTML of the main widget
\* and parsed back is the same text, with the same bold items.
C21_RoundTrip ==
    conv.phase = "parsed" =>
       /\ conv.md_back = conv.md_norm
       /\ conv.items_back = conv.items

\* the index of the k-th line of main_lines that has a bold segment
BoldIndex(main_lines, k) ==
    CHOOSE j \in 1..Len(main_lines) :
       /\ has_bold(main_lines[j])
       /\ Cardinality({i \in 1..j : has_bold(main_lines[i])}) = k

BoldCount(main_lines) ==
    Cardinality({i \in 1..Len(main_lines) : has_bold(main_lines[i])})

\* line carries item as its one bold segment, behind the segments that old
\* has before its first bold one
Carries(line, old, item) ==
    \E f \in 1..Len(line) :
       /\ line[f] = Seg(item, TRUE)
       /\ f <= Len(old)
       /\ SubSeq(line, 1, f - 1) = SubSeq(old, 1, f - 1)
       /\ old[f].b
       /\ \A g \in 1..Len(line) : g # f => ~line[g].b

\* C22: with no more items than lines that have bold, the replacement
\* returns as many lines as it got; a line without bold is returned as it
\* is, at its index; the k-th line with bold carries the k-th item behind
\* its non-bold prefix; the lines with bold past the last item are returned
\* as they are.  Items past the last line with bold are appended in order,
\* each as a line of one bold segment.
C22_LineSafeReplace ==
    conv.phase = "replaced" =>
       LET D == conv.main_lines
           I == conv.new_items
           out == conv.new_lines
           nb == BoldCount(D)
       IN /\ Len(I) <= nb =>
               /\ Len(out) = Len(D)
               /\ \A j \in 1..Len(D) : ~has_bold(D[j]) => out[j] = D[j]
               /\ \A k \in 1..Len(I) :
                     Carries(out[BoldIndex(D, k)], D[BoldIndex(D, k)], I[k])
               /\ \A k \in (Len(I) + 1)..nb :
                     out[BoldIndex(D, k)] = D[BoldIndex(D, k)]
          /\ Len(I) > nb =>
               /\ Len(out) = Len(D) + Len(I) - nb
               /\ \A k \in (nb + 1)..Len(I) :
                     out[Len(D) + k - nb] = <<Seg(I[k], TRUE)>>

\* a line "- " before bold got the first item, a second line with bold was
\* left, and a line without bold stands between them
C22_Witness ==
    /\ conv.phase = "replaced"
    /\ Len(conv.new_items) = 1
    /\ Len(conv.main_lines) = 3
    /\ conv.main_lines[1] = <<Seg(Dash, FALSE), Seg(A, TRUE), Seg(A, FALSE)>>
    /\ ~has_bold(conv.main_lines[2])
    /\ has_bold(conv.main_lines[3])
    /\ conv.new_lines[1] # conv.main_lines[1]

\* C23: a file whose write failed has no key in the change map, and when
\* the handler is called again for the same path with no file changed in
\* between, the write that failed is attempted again (and, the file being
\* still unwritable, fails again).
C23_FailedWriteRetried ==
    [][/\ failed' \cap wrote' = {}
       /\ (/\ calls' # calls
           /\ last_path' = last_path
           /\ failed # {})
          => failed \subseteq failed']_vars

(***************************************************************************)
(* The worker thread of the committer call by call: every git subprocess   *)
(* is a step that returns 0, returns non-zero or runs into its timeout     *)
(* (subprocess.TimeoutExpired), the lock is taken and released in steps of *)
(* their own, and the main thread of main.py runs next to it.              *)
(***************************************************************************)
\* the argument lists handed to _run_git ("f" is a conflicted file)
RevParseMergeHead == <<"rev-parse", "-q", "--verify", "MERGE_HEAD">>

RevParseUpstream == <<"rev-parse", "--abbrev-ref", "--symbolic-full-name", "@{u}">>

DiffConflicts == <<"diff", "--name-only", "--diff-filter=U">>

CheckoutSide(side_argument) == <<"checkout", side_argument, "--", "f">>

AddPath == <<"add", "--", "f">>

CommitNoEdit == <<"commit", "--no-edit">>

\* a variant that pulls with a rebase
PullCommand_rebase == <<"pull", "--rebase">>

PullCommand == <<"pull", "--no-rebase", "--no-edit">>

MergeAbort == <<"merge", "--abort">>

AddAll == <<"add", "-A">>

StatusPorcelain == <<"status", "--porcelain">>

CommitMessage == <<"commit", "-m", "Auto-commit: modified">>

PushCommand == <<"push">>

\* return code 0, another return code, subprocess.TimeoutExpired
GitOutcomes == {"ok", "fail", "timeout"}

NoItem == [repo_root |-> "none", event_type |-> "none", wants_pull |-> FALSE]

\* the thread as Thread.start() leaves it; cmd, note and touched tell what
\* the last step ran, notified and which tables it read or wrote
ThreadStart ==
    [pc |-> "get", item |-> NoItem, due |-> <<>>, at |-> "start", ret |-> "none",
     side_argument |-> "none", pushes |-> 0, pulls |-> 0, push_result |-> "none",
     pulled |-> "none", fault |-> "none", cmd |-> <<>>, note |-> "none", touched |-> {},
     previous |-> 0, conflicted_paths |-> "unread"]

\* (previous records the backoff of the batch's repository as it was when
\* _process_batch was entered: what the first _register_push_failure of the
\* batch reads at git.py 878-880)
\* a step that runs no git command, notifies nobody and touches no table
Quiet(t) == [t EXCEPT !.cmd = <<>>, !.note = "none", !.touched = {}]

\* _run_git(repo_root, arguments, ...) as the step's command
_run_git(t, arguments) == [Quiet(t) EXCEPT !.cmd = arguments]

safe_notify(t, name) == [t EXCEPT !.note = name]

\* an exception nobody catches leaves _process_batch and _worker_loop: the
\* thread ends
Uncaught(t, call) == [t EXCEPT !.pc = "dead", !.fault = call]

\* _process_batch returns
Return(t) ==
    [t EXCEPT !.due = Tail(@), !.pc = IF Len(t.due) = 1 THEN "get" ELSE "batch"]

ThreadBatch == Head(thread.due)

\* the threads run until the process exits
Running == main # "exited"

InitWorker ==
    /\ DispatchIdle
    /\ SyncIdle
    /\ ArgsIdle
    /\ TextIdle
    /\ git_config \in GitConfigs
    /\ GitStart
    /\ thread = ThreadStart
    /\ _pending_lock = "free"
    /\ main = "watching"

\* a handler of the pipeline enqueues an event; the observer's threads run
\* handlers until observer.join() returns
Handler(r, event_type) ==
    /\ main \in {"watching", "stopped"}
    /\ _enqueue(r, event_type)

\* _worker_loop: self._event_queue.get(timeout=0.2) returned an item
LoopGet ==
    /\ Running
    /\ thread.pc = "get"
    /\ _event_queue # <<>>
    /\ _event_queue' = Tail(_event_queue)
    /\ thread' = [Quiet(thread) EXCEPT !.pc = "lock_merge", !.item = Head(_event_queue)]
    /\ UNCHANGED <<git_config, _pending_batches, _push_backoff_seconds,
                   _push_next_allowed_at, worker, time_time, git_log>>
    /\ UNCHANGED <<_pending_lock, main>>
    /\ UNCHANGED <<dispatch_vars, sync_vars, args_vars, text_vars>>

\* _worker_loop: queue.Empty
LoopEmpty ==
    /\ Running
    /\ thread.pc = "get"
    /\ _event_queue = <<>>
    /\ thread' = [Quiet(thread) EXCEPT !.pc = "lock_scan"]
    /\ UNCHANGED <<git_vars, _pending_lock, main>>
    /\ UNCHANGED <<dispatch_vars, sync_vars, args_vars, text_vars>>

\* with self._pending_lock: entered
Acquire ==
    /\ Running
    /\ thread.pc \in {"lock_merge", "lock_scan"}
    /\ _pending_lock = "free"
    /\ _pending_lock' = "worker"
    /\ thread' = [Quiet(thread) EXCEPT
                    !.pc = IF thread.pc = "lock_merge" THEN "merge" ELSE "scan"]
    /\ UNCHANGED <<git_vars, main>>
    /\ UNCHANGED <<dispatch_vars, sync_vars, args_vars, text_vars>>

\* the body of the first with block: the item joins the batch of its
\* repository
MergeItem ==
    /\ Running
    /\ thread.pc = "merge"
    /\ LET item == thread.item
           i == PendingIndex(item.repo_root)
       IN _pending_batches' =
            IF i = 0
            THEN Append(_pending_batches,
                        [repo_root |-> item.repo_root,
                         wants_pull |-> item.wants_pull,
                         last_event_at |-> time_time,
                         event_types |-> {item.event_type}])
            ELSE [_pending_batches EXCEPT
                    ![i].wants_pull = @ \/ item.wants_pull,
                    ![i].last_event_at = time_time,
                    ![i].event_types = @ \cup {item.event_type}]
    /\ thread' = [Quiet(thread) EXCEPT !.pc = "unlock_merge", !.item = NoItem,
                                       !.touched = {"_pending_batches"}]
    /\ UNCHANGED <<git_config, _event_queue, _push_backoff_seconds,
                   _push_next_allowed_at, worker, time_time, git_log>>
    /\ UNCHANGED <<_pending_lock, main>>
    /\ UNCHANGED <<dispatch_vars, sync_vars, args_vars, text_vars>>

\* a variant that takes every pending batch, due or not
Scan_all ==
    /\ Running
    /\ thread.pc = "scan"
    /\ _pending_batches' = <<>>
    /\ thread' = [Quiet(thread) EXCEPT !.pc = "unlock_scan",
                                       !.due = _pending_batches,
                                       !.touched = {"_pending_batches"}]
    /\ UNCHANGED <<git_config, _event_queue, _push_backoff_seconds,
                   _push_next_allowed_at, worker, time_time, git_log>>
    /\ UNCHANGED <<_pending_lock, main>>
    /\ UNCHANGED <<dispatch_vars, sync_vars, args_vars, text_vars>>

\* the body of the second with block: the due batches leave the table
Scan ==
    /\ Running
    /\ thread.pc = "scan"
    /\ _pending_batches' = SelectSeq(_pending_batches, NotDue)
    /\ thread' = [Quiet(thread) EXCEPT !.pc = "unlock_scan",
                                       !.due = SelectSeq(_pending_batches, IsDue),
                                       !.touched = {"_pending_batches"}]
    /\ UNCHANGED <<git_config, _event_queue, _push_backoff_seconds,
                   _push_next_allowed_at, worker, time_time, git_log>>
    /\ UNCHANGED <<_pending_lock, main>>
    /\ UNCHANGED <<dispatch_vars, sync_vars, args_vars, text_vars>>

\* a with block is left
Release ==
    /\ Running
    /\ thread.pc \in {"unlock_merge", "unlock_scan"}
    /\ _pending_lock' = "free"
    /\ thread' = [Quiet(thread) EXCEPT
                    !.pc = IF thread.pc = "unlock_merge" THEN "lock_scan"
                           ELSE IF thread.due = <<>> THEN "get" ELSE "batch"]
    /\ UNCHANGED <<git_vars, main>>
    /\ UNCHANGED <<dispatch_vars, sync_vars, args_vars, text_vars>>

(***************************************************************************)
(* Git._process_batch for the first of the due batches, one git call per   *)
(* step.  at tells where _merge_in_progress and the conflict resolution    *)
(* were called from ("start" of the batch or _safe_pull_merge), ret where  *)
(* _safe_pull_merge was called from.                                       *)
(***************************************************************************)
\* a step of the worker thread that writes no table
Step(t) ==
    /\ Running
    /\ thread' = t
    /\ UNCHANGED <<git_vars, _pending_lock, main>>
    /\ UNCHANGED <<dispatch_vars, sync_vars, args_vars, text_vars>>

\* _process_batch(batch) is entered
ProcessBatch ==
    /\ thread.pc = "batch"
    /\ Step([Quiet(thread) EXCEPT !.pc = "check_merge", !.at = "start",
                                  !.ret = "none", !.side_argument = "none",
                                  !.pushes = 0, !.pulls = 0,
                                  !.push_result = "none", !.pulled = "none",
                                  !.fault = "none", !.conflicted_paths = "unread",
                                  !.previous = DictGet(_push_backoff_seconds,
                                                       ThreadBatch.repo_root,
                                                       git_config.backoff_start_seconds)])

\* after the unfinished-merge check: the pull-only path of opened batches,
\* or git add
AfterMergeCheck(t) ==
    IF Head(t.due).event_types = {"opened"} /\ Head(t.due).wants_pull
    THEN [t EXCEPT !.pc = "has_upstream", !.ret = "opened"]
    ELSE [t EXCEPT !.pc = "add"]

\* after the commit: the pull the batch asked for, or the backoff window
AfterCommit(t) ==
    IF Head(t.due).wants_pull
    THEN [t EXCEPT !.pc = "has_upstream", !.ret = "wants"]
    ELSE [t EXCEPT !.pc = "gate"]

\* a variant that pushes again whatever the pull returned
PullReturn_retry(t, pulled) ==
    LET r == [t EXCEPT !.pulled = IF pulled THEN "yes" ELSE "no"]
    IN IF t.ret = "opened" THEN Return(r)
       ELSE IF t.ret = "wants" THEN [r EXCEPT !.pc = "gate"]
       ELSE [r EXCEPT !.pc = "push2"]

\* _safe_pull_merge returns pulled to its caller
PullReturn(t, pulled) ==
    LET r == [t EXCEPT !.pulled = IF pulled THEN "yes" ELSE "no"]
    IN IF t.ret = "opened" THEN Return(r)
       ELSE IF t.ret = "wants" THEN [r EXCEPT !.pc = "gate"]
       ELSE [r EXCEPT !.pc = IF pulled THEN "push2" ELSE "register"]

\* _auto_resolve_merge_conflicts returns resolved to its caller
Resolved(t, resolved) ==
    IF ~resolved THEN [t EXCEPT !.pc = "abort"]
    ELSE IF t.at = "start" THEN AfterMergeCheck(t)
    ELSE PullReturn(t, TRUE)

\* _merge_in_progress: git rev-parse -q --verify MERGE_HEAD
MergeInProgress(outcome) ==
    /\ thread.pc = "check_merge"
    /\ \E t \in {_run_git(thread, RevParseMergeHead)} :
          Step(CASE outcome = "timeout" -> Uncaught(t, "merge_in_progress")
                 [] outcome = "ok" -> [t EXCEPT !.pc = "conflicted"]
                 [] outcome = "fail" ->
                      IF t.at = "start" THEN AfterMergeCheck(t)
                      ELSE PullReturn(safe_notify(t, "pullfail"), FALSE))

\* _auto_resolve_merge_conflicts up to the handling of the conflicted
\* file: found tells whether git lists one, file what the union mode finds
\* in it ("markers" it can resolve, "other", or an OSError);
\* conflicted_paths is what git diff --name-only --diff-filter=U gave:
\* "failed" (non-zero exit), "none" (no path) or "listed"
ConflictedFiles(outcome, normalized_mode, found, file) ==
    /\ thread.pc = "conflicted"
    /\ \E t \in {[_run_git(thread, DiffConflicts) EXCEPT
                    !.conflicted_paths = IF outcome = "fail" THEN "failed"
                                         ELSE IF found THEN "listed" ELSE "none"]} :
          Step(CASE outcome = "timeout" -> Uncaught(t, "conflicted_files")
                 [] outcome = "fail" \/ ~found \/ normalized_mode = "none" ->
                      Resolved(t, FALSE)
                 [] OTHER ->
                      IF normalized_mode = "ours"
                      THEN [t EXCEPT !.pc = "checkout", !.side_argument = "--ours"]
                      ELSE IF normalized_mode = "theirs"
                      THEN [t EXCEPT !.pc = "checkout", !.side_argument = "--theirs"]
                      ELSE IF file = "markers" THEN [t EXCEPT !.pc = "add_conflict"]
                      ELSE IF file = "other"
                      THEN [t EXCEPT !.pc = "checkout", !.side_argument = "--ours"]
                      ELSE Resolved(t, FALSE))

\* git checkout --ours/--theirs -- <path>
Checkout(outcome) ==
    /\ thread.pc = "checkout"
    /\ \E t \in {_run_git(thread, CheckoutSide(thread.side_argument))} :
          Step(CASE outcome = "timeout" -> Uncaught(t, "checkout")
                 [] outcome = "fail" -> Resolved(t, FALSE)
                 [] outcome = "ok" -> [t EXCEPT !.pc = "add_conflict"])

\* git add -- <path>
AddConflict(outcome) ==
    /\ thread.pc = "add_conflict"
    /\ \E t \in {_run_git(thread, AddPath)} :
          Step(CASE outcome = "timeout" -> Uncaught(t, "add_conflict")
                 [] outcome = "fail" -> Resolved(t, FALSE)
                 [] outcome = "ok" -> [t EXCEPT !.pc = "commit_merge"])

\* git commit --no-edit
CommitMerge(outcome) ==
    /\ thread.pc = "commit_merge"
    /\ \E t \in {_run_git(thread, CommitNoEdit)} :
          Step(CASE outcome = "timeout" -> Uncaught(t, "commit_merge")
                 [] outcome = "fail" -> Resolved(t, FALSE)
                 [] outcome = "ok" -> Resolved(t, TRUE))

\* git merge --abort, whose return code is not looked at
Abort(outcome) ==
    /\ thread.pc = "abort"
    /\ \E t \in {_run_git(thread, MergeAbort)} :
          Step(IF outcome = "timeout" THEN Uncaught(t, "merge_abort")
               ELSE IF t.at = "start" THEN Return(safe_notify(t, "merge-stuck"))
               ELSE PullReturn(safe_notify(t, "pull-conflict"), FALSE))

\* git add -A
GitAdd(outcome) ==
    /\ thread.pc = "add"
    /\ \E t \in {_run_git(thread, AddAll)} :
          Step(CASE outcome = "timeout" ->
                      Return(safe_notify([t EXCEPT !.fault = "add"], "timeout:add"))
                 [] outcome = "fail" -> Return(safe_notify(t, "addfail"))
                 [] outcome = "ok" -> [t EXCEPT !.pc = "status"])

\* git status --porcelain; dirty: its output is not empty
GitStatus(outcome, dirty) ==
    /\ thread.pc = "status"
    /\ \E t \in {_run_git(thread, StatusPorcelain)} :
          Step(CASE outcome = "timeout" ->
                      Return(safe_notify([t EXCEPT !.fault = "status"],
                                         "timeout:status"))
                 [] outcome = "fail" -> Return(safe_notify(t, "statusfail"))
                 [] outcome = "ok" ->
                      IF dirty THEN [t EXCEPT !.pc = "commit"] ELSE AfterCommit(t))

\* git commit -m <message>; nothing: a failure that says "nothing to commit"
GitCommit(outcome, nothing) ==
    /\ thread.pc = "commit"
    /\ \E t \in {_run_git(thread, CommitMessage)} :
          Step(CASE outcome = "timeout" ->
                      Return(safe_notify([t EXCEPT !.fault = "commit"],
                                         "timeout:commit"))
                 [] outcome = "fail" ->
                      IF nothing THEN AfterCommit(t)
                      ELSE Return(safe_notify(t, "commitfail"))
                 [] outcome = "ok" -> AfterCommit(t))

\* _safe_pull_merge: _has_upstream
HasUpstream(outcome) ==
    /\ thread.pc = "has_upstream"
    /\ \E t \in {_run_git(thread, RevParseUpstream)} :
          Step(CASE outcome = "timeout" -> Uncaught(t, "has_upstream")
                 [] outcome = "fail" ->
                      PullReturn(safe_notify(t, "pull-noupstream"), FALSE)
                 [] outcome = "ok" -> [t EXCEPT !.pc = "pull"])

\* _safe_pull_merge: the pull
SafePull(outcome) ==
    /\ thread.pc = "pull"
    /\ \E t \in {_run_git(thread, PullCommand)} :
          Step(CASE outcome = "timeout" ->
                      PullReturn(safe_notify([t EXCEPT !.fault = "pull"],
                                             "timeout:pull"), FALSE)
                 [] outcome = "fail" -> [t EXCEPT !.pc = "check_merge", !.at = "pull"]
                 [] outcome = "ok" -> PullReturn(t, TRUE))

\* a variant without the backoff window
Gate_open ==
    /\ thread.pc = "gate"
    /\ \E t \in {[Quiet(thread) EXCEPT !.touched = {"_push_next_allowed_at"}]} :
          Step([t EXCEPT !.pc = "push1"])

\* the backoff window: self._push_next_allowed_at.get(repo_root, 0.0)
Gate ==
    /\ thread.pc = "gate"
    /\ \E t \in {[Quiet(thread) EXCEPT !.touched = {"_push_next_allowed_at"}]} :
          Step(IF time_time < DictGet(_push_next_allowed_at,
                                      ThreadBatch.repo_root, 0)
               THEN Return(t) ELSE [t EXCEPT !.pc = "push1"])

BackoffTables == {"_push_backoff_seconds", "_push_next_allowed_at"}

\* batch.auto_merge_on_push and _push_rejected_needs_pull(output)
NeedsPull(result) == git_config.auto_merge_on_push /\ result = "rejected"

\* run_push(), first call, and what follows it up to the next git call
RunPush(result) ==
    /\ Running
    /\ thread.pc = "push1"
    /\ \E t \in {[_run_git(thread, PushCommand) EXCEPT
                    !.pushes = @ + 1, !.push_result = result]} :
          CASE result = "ok" ->
                 /\ ResetBackoff(ThreadBatch.repo_root)
                 /\ thread' = Return([t EXCEPT !.touched = BackoffTables])
            [] result = "timeout" ->
                 /\ RegisterPushFailure(ThreadBatch.repo_root)
                 /\ thread' = Return(safe_notify([t EXCEPT !.fault = "push",
                                                           !.touched = BackoffTables],
                                                 "timeout:push"))
            [] OTHER ->
                 /\ UNCHANGED <<_push_backoff_seconds, _push_next_allowed_at>>
                 /\ thread' = IF NeedsPull(result)
                              THEN [t EXCEPT !.pc = "has_upstream",
                                             !.ret = "rejected", !.pulls = @ + 1]
                              ELSE [t EXCEPT !.pc = "register"]
    /\ UNCHANGED <<git_config, _event_queue, _pending_batches, worker, time_time,
                   git_log>>
    /\ UNCHANGED <<_pending_lock, main>>
    /\ UNCHANGED <<dispatch_vars, sync_vars, args_vars, text_vars>>

\* run_push(), second call: a timeout registers the failure inside
\* run_push, and the registration at the end of the branch follows
RetryPush(result) ==
    /\ Running
    /\ thread.pc = "push2"
    /\ \E t \in {[_run_git(thread, PushCommand) EXCEPT
                    !.pushes = @ + 1, !.push_result = result]} :
          CASE result = "ok" ->
                 /\ ResetBackoff(ThreadBatch.repo_root)
                 /\ thread' = Return([t EXCEPT !.touched = BackoffTables])
            [] result = "timeout" ->
                 /\ RegisterPushFailure(ThreadBatch.repo_root)
                 /\ thread' = safe_notify([t EXCEPT !.pc = "register",
                                                    !.fault = "push",
                                                    !.touched = BackoffTables],
                                          "timeout:push")
            [] OTHER ->
                 /\ UNCHANGED <<_push_backoff_seconds, _push_next_allowed_at>>
                 /\ thread' = [t EXCEPT !.pc = "register"]
    /\ UNCHANGED <<git_config, _event_queue, _pending_batches, worker, time_time,
                   git_log>>
    /\ UNCHANGED <<_pending_lock, main>>
    /\ UNCHANGED <<dispatch_vars, sync_vars, args_vars, text_vars>>

\* the end of the failure branch: _register_push_failure and the
\* notification
RegisterAndNotify ==
    /\ Running
    /\ thread.pc = "register"
    /\ RegisterPushFailure(ThreadBatch.repo_root)
    /\ thread' = Return(safe_notify([Quiet(thread) EXCEPT !.touched = BackoffTables],
                                    "pushfail"))
    /\ UNCHANGED <<git_config, _event_queue, _pending_batches, worker, time_time,
                   git_log>>
    /\ UNCHANGED <<_pending_lock, main>>
    /\ UNCHANGED <<dispatch_vars, sync_vars, args_vars, text_vars>>

\* time passes while the worker waits in queue.get, in a pull or in a push
Elapse ==
    /\ Running
    /\ time_time < MaxGitTime
    /\ \/ thread.pc = "get" /\ _event_queue = <<>>
       \/ thread.pc \in {"pull", "push1", "push2"}
    /\ time_time' = time_time + 1
    /\ UNCHANGED <<git_config, _event_queue, _pending_batches,
                   _push_backoff_seconds, _push_next_allowed_at, worker, git_log>>
    /\ UNCHANGED thread_vars
    /\ UNCHANGED <<dispatch_vars, sync_vars, args_vars, text_vars>>

(***************************************************************************)
(* The main thread: main.py from the KeyboardInterrupt on.  The worker is  *)
(* a daemon thread (daemon=True) that nobody joins: it ends with the       *)
(* process.                                                                *)
(***************************************************************************)
\* the step of the main thread from position from to position to
MainStep(from, to) ==
    /\ main = from
    /\ main' = to
    /\ UNCHANGED <<git_vars, thread, _pending_lock>>
    /\ UNCHANGED <<dispatch_vars, sync_vars, args_vars, text_vars>>

\* except KeyboardInterrupt: observer.stop()
Interrupt == MainStep("watching", "stopped")

\* observer.join(): the handler calls in flight have returned
ObserverJoin == MainStep("stopped", "joined")

\* the end of main.py: the interpreter exits and the daemon thread with it
Exit == MainStep("joined", "exited")

\* events enqueued under SpecWorker
MaxJobs == 2

NextWorker ==
    \/ \E r \in Repos : \E t \in EnqueuedTypes(r) :
          git_log.enqueued < MaxJobs /\ Handler(r, t)
    \/ LoopGet
    \/ LoopEmpty
    \/ Acquire
    \/ MergeItem
    \/ Scan
    \/ Release
    \/ ProcessBatch
    \/ \E outcome \in GitOutcomes : MergeInProgress(outcome)
    \/ \E outcome \in GitOutcomes, found \in BOOLEAN :
          \E normalized_mode \in {"none", "ours", "theirs", "union"} :
             \E file \in {"markers", "other", "OSError"} :
                ConflictedFiles(outcome, normalized_mode, found, file)
    \/ \E outcome \in GitOutcomes : Checkout(outcome)
    \/ \E outcome \in GitOutcomes : AddConflict(outcome)
    \/ \E outcome \in GitOutcomes : CommitMerge(outcome)
    \/ \E outcome \in GitOutcomes : Abort(outcome)
    \/ \E outcome \in GitOutcomes : GitAdd(outcome)
    \/ \E outcome \in GitOutcomes, dirty \in BOOLEAN : GitStatus(outcome, dirty)
    \/ \E outcome \in GitOutcomes, nothing \in BOOLEAN : GitCommit(outcome, nothing)
    \/ \E outcome \in GitOutcomes : HasUpstream(outcome)
    \/ \E outcome \in GitOutcomes : SafePull(outcome)
    \/ Gate
    \/ \E result \in PushResults : RunPush(result)
    \/ \E result \in PushResults : RetryPush(result)
    \/ RegisterAndNotify
    \/ Elapse
    \/ Interrupt
    \/ ObserverJoin
    \/ Exit

SpecWorker == InitWorker /\ [][NextWorker]_vars

(***************************************************************************)
(* Properties of the worker thread.                                        *)
(***************************************************************************)
\* C24: no git command the committer runs has rebase or a force option
\* among its arguments: every pull is "pull --no-rebase --no-edit" and
\* every push is "push" alone.
C24_NoRebaseNoForce ==
    LET cmd == thread.cmd
    IN /\ \A i \in 1..Len(cmd) :
             cmd[i] \notin {"rebase", "--rebase", "-r", "--force", "-f",
                            "--force-with-lease", "--force-if-includes"}
       /\ (cmd # <<>> /\ cmd[1] = "pull") => cmd = <<"pull", "--no-rebase", "--no-edit">>
       /\ (cmd # <<>> /\ cmd[1] = "push") => cmd = <<"push">>

\* the pull that follows a rejected push has just run, and the push is
\* about to be run again
C24_Witness ==
    /\ thread.cmd = <<"pull", "--no-rebase", "--no-edit">>
    /\ thread.ret = "rejected"
    /\ thread.pc = "push2"

\* C25: a git call of a batch that runs into its timeout is followed by a
\* notification, and the worker thread goes on.
C25_TimeoutSurvived ==
    [][thread'.fault \notin {"none", thread.fault}
          => /\ thread'.pc # "dead"
             /\ thread'.note # "none"]_vars

\* C26: a step that reads or writes the pending-batch table or one of the
\* two backoff tables is made with the lock held.
C26_TablesUnderLock == thread.touched # {} => _pending_lock = "worker"

\* C27: when the process has exited, the worker is not inside a batch and
\* no due batch waits for it.
C27_ExitAfterWorker == main = "exited" => thread.due = <<>>

\* C28: a batch runs at most two pushes and at most one pull after a push;
\* such a pull follows a first push that was rejected asking for a pull,
\* with auto-merge enabled, and it does follow then; the second push is
\* run when, and only when, that pull-merge returned True; when the second
\* push succeeds the backoff of the repository is the start value and its
\* next-allowed time is 0.
C28_PullThenRetryOnce ==
    [][LET r == ThreadBatch.repo_root
       IN /\ thread'.pushes <= 2
          /\ thread'.pulls <= 1
          /\ (thread'.pushes >= 1
                /\ thread'.cmd \in {RevParseUpstream, RevParseMergeHead, PullCommand,
                                    DiffConflicts, MergeAbort})
             => /\ git_config.auto_merge_on_push
                /\ thread'.push_result = "rejected"
                /\ thread'.pushes = 1
                /\ thread'.pulls = 1
          /\ (thread.pc = "push1" /\ thread' # thread)
             => IF thread'.push_result = "rejected" /\ git_config.auto_merge_on_push
                THEN thread'.pc = "has_upstream" /\ thread'.ret = "rejected"
                ELSE thread'.pc # "has_upstream" /\ thread'.pulls = 0
          /\ (thread.ret = "rejected" /\ thread.pulled = "none"
                /\ thread'.pulled # "none")
             => thread'.pc = IF thread'.pulled = "yes" THEN "push2" ELSE "register"
          /\ (thread'.pc = "push2" /\ thread.pc # "push2")
             => thread'.pulled = "yes" /\ thread'.pushes = 1
          /\ (thread.pc = "push2" /\ thread' # thread
                /\ thread'.push_result = "ok")
             => /\ thread'.pushes = 2
                /\ _push_backoff_seconds'[r] = git_config.backoff_start_seconds
                /\ _push_next_allowed_at'[r] = 0]_vars

\* a rejected push was followed by a pull-merge and by a second push, which
\* succeeded
C28_Witness ==
    /\ thread.pushes = 2
    /\ thread.pulls = 1
    /\ thread.pulled = "yes"
    /\ thread.push_result = "ok"
    /\ \E r \in Repos :
          /\ r \in DOMAIN _push_backoff_seconds
          /\ _push_backoff_seconds[r] = git_config.backoff_start_seconds
          /\ _push_next_allowed_at[r] = 0


(***************************************************************************)
(* The event of a rename performed by the Renamer.                         *)
(***************************************************************************)

\* C29 (rename echo): when the Renamer has returned {old: 1, new: 1} and
\* the one moved event old -> new of its os.rename is delivered, the event
\* is dropped and afterwards the ledger holds no entry for old or for new
\* (so that the next user edit of new is forwarded).
C29_RenameEchoDrained ==
    [][\A m \in MovedPairs :
         (m \in echoMoved /\ m \notin echoMoved') =>
            LET h == HandlerOf(m[2]) IN
            /\ hist' = "ignored"
            /\ m[1] \notin DOMAIN _ignore_paths'[h]
            /\ m[2] \notin DOMAIN _ignore_paths'[h]]_vars


(***************************************************************************)
(* The first opened event of a path.                                       *)
(***************************************************************************)

\* C30 (fresh path): with a cooldown c > 0, an opened event for a path that
\* has no timestamp in the cache of its handler passes the throttle and is
\* handed to _process_file, whatever the monotonic clock reads; a burst of
\* opened events for a fresh path therefore gives one invocation, not none.
C30_FirstOpenForwarded ==
    [][\A e \in OpenedEvents :
         (/\ _open_cooldown_seconds > 0
          /\ e.src_path \notin DOMAIN _last_open_ts[HandlerOf(e.src_path)]
          /\ on_opened(e))
         => hist' # "throttled"]_vars


(***************************************************************************)
(* ModuleManager.run: the exclude / force test of the module loop, read    *)
(* from self.config as the first _update_config() left it.                 *)
(***************************************************************************)
\* the names a parsed list value holds
names(value) ==
    IF isinstance_list(value) THEN {value[2][k] : k \in 1..Len(value[2])} ELSE {}

\* module_manager.py 75-79: the module is passed over
run_skips(name) ==
    /\ name \in names(self_config.values["exclude"])
    /\ name \notin names(self_config.values["force"])

\* a directive line of the file gives the name to the flag
Directive(flag, name) ==
    \E n \in ExaminedLines(ctx.lines, ctx.only_first_line) :
       \E k \in 1..(Len(ctx.lines[n]) - 1) :
          ctx.lines[n][k] = flag /\ ctx.lines[n][k + 1] = name

\* C31 (file beats startup): for the event whose file was just parsed, a
\* module excluded by a directive of the file and forced nowhere is passed
\* over, and a module excluded at startup and forced by a directive of the
\* file is invoked.
C31_FileExcludeForce ==
    ctx.done =>
       /\ (/\ Directive("--exclude", "x")
           /\ ~Directive("--force", "x")
           /\ "x" \notin names(boot.config["force"]))
          => run_skips("x")
       /\ (/\ "x" \in names(boot.config["exclude"])
           /\ Directive("--force", "x"))
          => ~run_skips("x")


(***************************************************************************)
(* The synchronizer and a main widget that is only partly written.         *)
(***************************************************************************)

\* C32 (partial widget): when the handler is called for the main widget or
\* for the bold mirror while the main widget holds incomplete HTML, the
\* call writes no file, returns no change map and leaves the three hashes
\* as the initialisation from disk left them.
C32_PartialSkipped ==
    [][(/\ calls' # calls
        /\ last_path' \in {widget_path, bold_widget_path}
        /\ last_path' = bold_widget_path => bold_configured
        /\ disk[widget_path].kind = "html"
        /\ ~_looks_like_complete_html(disk[widget_path]))
       => \E s \in {_init_from_disk_once(Snapshot)} :
            /\ wrote' = {}
            /\ disk' = disk
            /\ _CURRENT_MD_HASH' = s.md_hash
            /\ _MAIN_BOLD_HASH' = s.main_bold
            /\ _BOLD_NOTE_ITEMS_HASH' = s.note_items]_vars


\* C33 (cold start): when the first call of the handler is for the markdown
\* note (the state being initialised from disk in that call) and the main
\* widget can be written, the widget holds the canonical HTML of the note
\* after the call.
C33_ColdStartWidget ==
    [][(/\ calls' # calls
        /\ ~_INIT_DONE
        /\ last_path' = markdown_path
        /\ disk[markdown_path] # Missing
        /\ widget_path \notin readonly)
       => \E n \in {_normalize_markdown_bold(_read_file(Snapshot))} :
            disk'[widget_path] = _markdown_to_plasma_html(n.md_norm)]_vars


\* C34 (main to markdown): a call of the handler for the main widget whose
\* parsed document has the hash the module holds as canonical does not
\* change the markdown note.
C34_NoteKept ==
    [][(/\ calls' # calls
        /\ last_path' = widget_path
        /\ _looks_like_complete_html(disk[widget_path])
        /\ \E s \in {_init_from_disk_once(Snapshot)} :
           \E n \in {_main_html_to_markdown_and_items(disk[widget_path])} :
              ~_update_md_state(s, n.md_norm).changed)
       => disk'[markdown_path] = disk[markdown_path]]_vars


(***************************************************************************)
(* The committer registered in the pipeline: ModuleManager.run over the    *)
(* modules of main.py and Git(), for the events of a directory n1 that    *)
(* lies in repository rA and of a directory n2 that lies in none.          *)
(***************************************************************************)
NoRepo == "none"

\* Git._find_git_root
_find_git_root(path) ==
    IF path # NoPath /\ path[1] = "n1" THEN "rA" ELSE NoRepo

InitPipeline ==
    /\ config \in StartupConfigs
    /\ modules = SortModules(Append(MODULES, "git"),
                             _parse_priority_list(config.sys_priority))
    /\ _open_cooldown_seconds = config.sys_on_open_cooldown
    /\ _ignore_paths = [h \in Dirs |-> EmptyDict]
    /\ _last_open_ts = [h \in Dirs |-> EmptyDict]
    /\ _opened_events_seen = [h \in Dirs |-> 0]
    /\ now = 0
    /\ echo = [p \in FilePaths |-> 0]
    /\ echoMoved = {}
    /\ predicted = [p \in FilePaths |-> 0]
    /\ run = IdleRun
    /\ hist = "none"
    /\ user_events = 0
    /\ writes = 0
    /\ GitIdle
    /\ SyncIdle
    /\ ArgsIdle
    /\ TextIdle
    /\ ThreadIdle

\* run() reaches the committer and the event type names a method of its
\* class: Git.created / modified / deleted / moved, all of them _handle,
\* which enqueues the event without asking for a pull and returns None
CallGit ==
    /\ run.status = "running"
    /\ run.idx <= Len(modules)
    /\ modules[run.idx] = "git"
    /\ ~excluded("git")
    /\ run.event.event_type \in class_dict("git")
    /\ \E repo_root \in
            {IF _find_git_root(run.path) # NoRepo THEN _find_git_root(run.path)
             ELSE _find_git_root(IF run.event.dest_path # NoPath
                                 THEN run.event.dest_path
                                 ELSE run.event.src_path)} :
         IF repo_root = NoRepo
         THEN UNCHANGED <<_event_queue, git_log>>
         ELSE /\ git_log.enqueued < MaxEnqueued
              /\ _event_queue' = Append(_event_queue,
                                        [repo_root |-> repo_root,
                                         event_type |-> run.event.event_type,
                                         wants_pull |-> FALSE])
              /\ git_log' = [git_log EXCEPT !.enqueued = @ + 1]
    /\ run' = [run EXCEPT !.idx = @ + 1,
                          !.calls = Append(@, [name |-> "git", path |-> run.path,
                                               parsed |-> run.parsed])]
    /\ UNCHANGED <<config, modules, _open_cooldown_seconds, _ignore_paths,
                   _last_open_ts, _opened_events_seen, now, echo, echoMoved,
                   predicted, hist, user_events, writes>>
    /\ UNCHANGED <<git_config, _pending_batches, _push_backoff_seconds,
                   _push_next_allowed_at, worker, time_time>>
    /\ UNCHANGED <<sync_vars, args_vars, text_vars, thread_vars>>

NextPipeline ==
    \/ \E e \in PlainEvents \cup MovedEvents : UserEvent(e)
    \/ \E p \in FilePaths : EchoEvent(p)
    \/ \E m \in MovedPairs : EchoMoved(m)
    \/ SkipModule
    \/ \E out \in UNION {Outcomes(m, p, t) : m \in ModuleNames, p \in FilePaths,
                                             t \in EventTypes} : CallModule(out)
    \/ CallGit
    \/ ReturnRun

SpecPipeline == InitPipeline /\ [][NextPipeline]_vars

\* C35 (opened events): a run for an opened event has called, when it
\* returns, every module that is not excluded and has a handler for opened
\* events (on_opened) in its class; for a file of a repository the
\* committer has then enqueued an opened event that asks for a pull.
C35_OpenedReachesGit ==
    [][(/\ run.status = "running"
        /\ run'.status = "returned"
        /\ run.event.event_type = "opened")
       => /\ \A i \in 1..Len(modules) :
               (~excluded(modules[i]) /\ "on_opened" \in class_dict(modules[i]))
               => \E k \in 1..Len(run.calls) : run.calls[k].name = modules[i]
          /\ (~excluded("git") /\ _find_git_root(run.trigger) # NoRepo)
               => \E k \in 1..Len(_event_queue') :
                     /\ _event_queue'[k].repo_root = _find_git_root(run.trigger)
                     /\ _event_queue'[k].event_type = "opened"
                     /\ _event_queue'[k].wants_pull]_vars


(***************************************************************************)
(* The backoff window of the push.                                         *)
(***************************************************************************)
\* the worker is in the backoff window of the batch it processes
InWindow ==
    /\ thread.due # <<>>
    /\ time_time < DictGet(_push_next_allowed_at, ThreadBatch.repo_root, 0)

\* C36 (backoff window): no git push is run for a batch while the time is
\* earlier than the next-allowed time of its repository; the batch that
\* reaches the window check inside the window ends there without a push;
\* git add -A and git commit -m are run for the batch whatever the window.
C36_NoPushInWindow ==
    [][/\ thread'.pushes = thread.pushes + 1 => ~InWindow
       /\ (thread.pc = "gate" /\ thread'.pc # "gate" /\ InWindow)
            => /\ thread'.pushes = 0
               /\ thread'.cmd = <<>>
               /\ thread'.due = Tail(thread.due)
       /\ (thread.pc = "add" /\ thread'.pc # "add") => thread'.cmd = AddAll
       /\ (thread.pc = "commit" /\ thread'.pc # "commit")
            => thread'.cmd = CommitMessage]_vars

\* the commit of a batch has just succeeded inside the window
C36_Witness ==
    /\ thread.pc = "gate"
    /\ thread.cmd = CommitMessage
    /\ InWindow


\* C37 (one registration per batch): when _process_batch returns from a
\* batch in which a push failed (non-zero exit or timeout, first or retried
\* push), the backoff of the repository is at most
\* min(2 * max(previous, start), max), previous being the backoff the batch
\* found.
C37_OneFailurePerBatch ==
    [][(/\ thread.due # <<>>
        /\ thread'.due = Tail(thread.due)
        /\ thread'.note \in {"pushfail", "timeout:push"})
         => DictGet(_push_backoff_seconds', ThreadBatch.repo_root,
                    git_config.backoff_start_seconds)
              <= Min2(2 * Max2(thread.previous, git_config.backoff_start_seconds),
                      git_config.backoff_max_seconds)]_vars


\* C40 (abort only after a failed resolution): when a batch starts while a
\* merge is in progress and git lists no conflicted path for it, the worker
\* does not run git merge --abort.
C40_CleanMergeKept ==
    [][(/\ thread.at = "start"
        /\ thread.conflicted_paths = "none"
        /\ thread.pc \notin {"get", "batch", "dead"})
         => thread'.cmd # MergeAbort]_vars


(***************************************************************************)
(* The worker under fair scheduling.  The worker thread is a running       *)
(* thread: a step it can take is taken.  queue.get(timeout=0.2) raises     *)
(* Empty only after 0.2 s, so the clock advances over the rounds of        *)
(* _worker_loop that find the queue empty.  Nothing is required of the     *)
(* handlers (events may stop arriving) or of the main thread.              *)
(***************************************************************************)
\* a step of the worker thread
WorkerThread ==
    \/ LoopGet
    \/ LoopEmpty
    \/ Acquire
    \/ MergeItem
    \/ Scan
    \/ Release
    \/ ProcessBatch
    \/ \E outcome \in GitOutcomes : MergeInProgress(outcome)
    \/ \E outcome \in GitOutcomes, found \in BOOLEAN :
          \E normalized_mode \in {"none", "ours", "theirs", "union"} :
             \E file \in {"markers", "other", "OSError"} :
                ConflictedFiles(outcome, normalized_mode, found, file)
    \/ \E outcome \in GitOutcomes : Checkout(outcome)
    \/ \E outcome \in GitOutcomes : AddConflict(outcome)
    \/ \E outcome \in GitOutcomes : CommitMerge(outcome)
    \/ \E outcome \in GitOutcomes : Abort(outcome)
    \/ \E outcome \in GitOutcomes : GitAdd(outcome)
    \/ \E outcome \in GitOutcomes, dirty \in BOOLEAN : GitStatus(outcome, dirty)
    \/ \E outcome \in GitOutcomes, nothing \in BOOLEAN : GitCommit(outcome, nothing)
    \/ \E outcome \in GitOutcomes : HasUpstream(outcome)
    \/ \E outcome \in GitOutcomes : SafePull(outcome)
    \/ Gate
    \/ \E result \in PushResults : RunPush(result)
    \/ \E result \in PushResults : RetryPush(result)
    \/ RegisterAndNotify

\* the events of the observer's threads while main.py watches
Arrive ==
    \E r \in Repos : \E t \in EnqueuedTypes(r) :
       git_log.enqueued < MaxJobs /\ Handler(r, t)

NextWorkerLive == WorkerThread \/ Arrive \/ Elapse

SpecWorkerLive ==
    /\ InitWorker
    /\ [][NextWorkerLive]_vars
    /\ WF_vars(WorkerThread)
    /\ SF_vars(Elapse)

\* an event of repository r is in the queue, in the hands of the worker, in
\* the pending table or in a batch that is due
Waiting(r) ==
    \/ \E i \in 1..Len(_event_queue) : _event_queue[i].repo_root = r
    \/ thread.item.repo_root = r
    \/ PendingIndex(r) # 0
    \/ \E i \in 1..Len(thread.due) : thread.due[i].repo_root = r

\* the batch of r becomes due after the last tick of the modelled clock
Beyond(r) ==
    /\ PendingIndex(r) # 0
    /\ _pending_batches[PendingIndex(r)].last_event_at + debounce_seconds > MaxGitTime

\* C38 (liveness of batching): the pending table holds one batch per
\* repository; the batches the worker takes for processing are those whose
\* last ingested event is at least debounce_seconds old, and their entries
\* leave the pending table; and while the process runs and no git call
\* ends the thread, every enqueued event of a repository ends up in a
\* batch that has been processed, with nothing of the repository left in the
\* queue or the pending table.
C38_BatchingLive ==
    /\ [](\A i, j \in 1..Len(_pending_batches) :
             _pending_batches[i].repo_root = _pending_batches[j].repo_root => i = j)
    /\ [][(thread.pc = "scan" /\ thread'.pc # "scan")
            => /\ \A i \in 1..Len(_pending_batches) :
                    LET batch == _pending_batches[i]
                    IN IF time_time - batch.last_event_at >= debounce_seconds
                       THEN /\ \E k \in 1..Len(thread'.due) : thread'.due[k] = batch
                            /\ \A k \in 1..Len(_pending_batches') :
                                  _pending_batches'[k].repo_root # batch.repo_root
                       ELSE /\ \E k \in 1..Len(_pending_batches') :
                                  _pending_batches'[k] = batch
                            /\ \A k \in 1..Len(thread'.due) : thread'.due[k] # batch
               /\ Len(thread'.due) + Len(_pending_batches') = Len(_pending_batches)]_vars
    /\ \A r \in Repos :
          Waiting(r) ~> (\/ ~Waiting(r)
                         \/ main = "exited"
                         \/ thread.pc = "dead"
                         \/ Beyond(r))

\* a batch whose debounce has passed is being processed, nothing else waits
C38_Witness ==
    /\ thread.pc = "check_merge"
    /\ Len(thread.due) = 1
    /\ time_time - ThreadBatch.last_event_at >= debounce_seconds
    /\ ThreadBatch.event_types = {"modified", "opened"}
    /\ _event_queue = <<>>
    /\ _pending_batches = <<>>

\* C39 (deferred push): a batch that was committed and whose push is
\* skipped inside the backoff window is followed by a git push of the worker
\* once the next-allowed time is reached, without a further event (while the
\* process runs and the thread lives).
C39_DeferredPushDone ==
    (thread.pc = "gate" /\ thread.cmd = CommitMessage /\ InWindow
       /\ DictGet(_push_next_allowed_at, ThreadBatch.repo_root, 0) <= MaxGitTime)
    ~> (\/ thread.cmd = PushCommand
        \/ main = "exited"
        \/ thread.pc = "dead")

====
